---- MODULE Spec2Model ----
(***************************************************************************)
(* Model of the MIHCSME metadata library (mihcsme_omero): the pydantic     *)
(* models of models.py (AssayCondition and its well validator,             *)
(* MIHCSMEMetadata.to_omero_dict / from_omero_dict) and the spreadsheet    *)
(* parser of parser.py, the annotation helpers of omero_connection.py, and *)
(* the grouping and the download of uploader.py as the specification and  *)
(* the tests of the download describe them.                               *)
(*                                                                         *)
(* Representation of Python values                                         *)
(*   str        a sequence of one-character strings, <<"A","0","1">>       *)
(*   None       the tuple <<"None">> (no str is equal to it: every item of *)
(*              a str is a single character)                               *)
(*   NaN        pandas' missing cell, the tuple <<"NaN">>                  *)
(*   dict       the set of its items <<key, value>>, one per key (dict     *)
(*              equality in Python does not look at insertion order); the  *)
(*              flat upload dict, whose iteration order the code uses, is  *)
(*              a sequence of items <<key, kind, value>>, distinct keys    *)
(*   list       a sequence                                                 *)
(*   an object  a record of its fields; an absent object is NoObject       *)
(***************************************************************************)
EXTENDS Integers, Sequences, FiniteSets, TLC

VARIABLES
    call,        \* the call under way: its name and its arguments
    pc,          \* position of the caller: "start", then the calls made
    condition,   \* AssayCondition returned by the constructor, or NoObject
    again,       \* AssayCondition built again from condition.well, or NoObject
    metadata,    \* MIHCSMEMetadata returned by the call, or NoObject
    omero_dict,  \* result of metadata.to_omero_dict(), or NoDict
    restored,    \* result of from_omero_dict(omero_dict), or NoObject
    raised,      \* exception that left the call, or NoError
    xls,         \* workbook handle: "unopened", "open" or "closed"
    conn,        \* the OMERO server behind the connection
    returned     \* value returned by the call of omero_connection.py, or NoObject

vars == <<call, pc, condition, again, metadata, omero_dict, restored, raised, xls, conn,
         returned>>

-----------------------------------------------------------------------------
(* Python values *)

None == <<"None">>
NaN == <<"NaN">>
NoObject == [absent |-> TRUE]
NoDict == <<<<"absent">>>>
NoError == [type |-> "none", msg |-> "", names |-> <<>>]

\* The printable ASCII characters in code point order, from 32 (space); "<96>"
\* holds the place of the grave accent, which a TLA+ string cannot contain.
Ascii ==
    <<" ", "!", "\"", "#", "$", "%", "&", "'", "(", ")", "*", "+", ",", "-", ".", "/",
      "0", "1", "2", "3", "4", "5", "6", "7", "8", "9", ":", ";", "<", "=", ">", "?",
      "@", "A", "B", "C", "D", "E", "F", "G", "H", "I", "J", "K", "L", "M", "N", "O",
      "P", "Q", "R", "S", "T", "U", "V", "W", "X", "Y", "Z", "[", "\\", "]", "^", "_",
      "<96>", "a", "b", "c", "d", "e", "f", "g", "h", "i", "j", "k", "l", "m", "n", "o",
      "p", "q", "r", "s", "t", "u", "v", "w", "x", "y", "z", "{", "|", "}", "~">>

\* ord(c)
Ord(c) == 31 + (CHOOSE i \in 1..Len(Ascii) : Ascii[i] = c)

\* chr(n)
Chr(n) == Ascii[n - 31]

\* c.upper() for one character
UpperChar(c) == IF Ord(c) >= Ord("a") /\ Ord(c) <= Ord("z") THEN Chr(Ord(c) - 32) ELSE c

\* Upper without the uppercasing
Upper_Identity(s) == s

\* s.upper()
Upper(s) == [i \in 1..Len(s) |-> UpperChar(s[i])]

\* c.lower() for one character
LowerChar(c) == IF Ord(c) >= Ord("A") /\ Ord(c) <= Ord("Z") THEN Chr(Ord(c) + 32) ELSE c

\* s.lower()
Lower(s) == [i \in 1..Len(s) |-> LowerChar(s[i])]

IsSpace(c) == c = " "

RECURSIVE LStrip(_)
LStrip(s) == IF s # <<>> /\ IsSpace(Head(s)) THEN LStrip(Tail(s)) ELSE s

RECURSIVE RStrip(_)
RStrip(s) ==
    IF s # <<>> /\ IsSpace(s[Len(s)]) THEN RStrip(SubSeq(s, 1, Len(s) - 1)) ELSE s

\* s.strip()
Strip(s) == RStrip(LStrip(s))

\* s.startswith(p)
StartsWith(s, p) == Len(s) >= Len(p) /\ SubSeq(s, 1, Len(p)) = p

IsDigit(c) == Ord(c) >= Ord("0") /\ Ord(c) <= Ord("9")

DigitValue(c) == Ord(c) - Ord("0")

\* The digits of an int literal: digits, single underscores between digits.
IsDigitRun(s) ==
    /\ s # <<>>
    /\ \A i \in 1..Len(s) : IsDigit(s[i]) \/ s[i] = "_"
    /\ IsDigit(s[1]) /\ IsDigit(s[Len(s)])
    /\ \A i \in 1..(Len(s) - 1) : ~(s[i] = "_" /\ s[i + 1] = "_")

RECURSIVE DigitRunValue(_, _)
DigitRunValue(s, acc) ==
    IF s = <<>> THEN acc
    ELSE IF Head(s) = "_" THEN DigitRunValue(Tail(s), acc)
    ELSE DigitRunValue(Tail(s), 10 * acc + DigitValue(Head(s)))

HasSign(s) == s # <<>> /\ Head(s) \in {"+", "-"}

Unsigned(s) == IF HasSign(s) THEN Tail(s) ELSE s

\* int(s) succeeds: surrounding whitespace, an optional sign, a digit run
IntParses(s) == IsDigitRun(Unsigned(Strip(s)))

\* int(s), when it succeeds
IntValue(s) ==
    LET t == Strip(s)
        n == DigitRunValue(Unsigned(t), 0)
    IN IF HasSign(t) /\ Head(t) = "-" THEN 0 - n ELSE n

\* str(n) for n >= 0
RECURSIVE NatToStr(_)
NatToStr(n) ==
    IF n < 10 THEN <<Chr(Ord("0") + n)>>
    ELSE NatToStr(n \div 10) \o <<Chr(Ord("0") + (n % 10))>>

\* Format02d without the zero padding
Format02d_NoPad(n) == NatToStr(n)

\* f"{n:02d}" for n >= 0
Format02d(n) == IF n < 10 THEN <<"0">> \o NatToStr(n) ELSE NatToStr(n)

-----------------------------------------------------------------------------
(* Exceptions and results of a call *)

Returned(v) == [ok |-> TRUE, value |-> v, error |-> NoError]

Raise(t, m) == [ok |-> FALSE, value |-> None, error |-> [type |-> t, msg |-> m, names |-> <<>>]]

RaiseNames(t, m, ns) ==
    [ok |-> FALSE, value |-> None, error |-> [type |-> t, msg |-> m, names |-> ns]]

-----------------------------------------------------------------------------
(* models.py: AssayCondition *)

MinColumn == 1
MaxColumn == 48
FirstRow == "A"
LastRow == "P"

\* ColumnChecked with the column clamped into MinColumn..MaxColumn
ColumnChecked_Clamp(row_letter, col_num) ==
    Returned(<<row_letter>> \o Format02d(IF col_num < MinColumn THEN MinColumn
                                         ELSE IF col_num > MaxColumn THEN MaxColumn
                                         ELSE col_num))

\* The try block of normalize_well_name after col_num = int(col_part)
ColumnChecked(row_letter, col_num) ==
    IF ~(MinColumn <= col_num /\ col_num <= MaxColumn)
    THEN Raise("ValueError", "Invalid column number")
    ELSE Returned(<<row_letter>> \o Format02d(col_num))

\* The body of the try block of normalize_well_name
WellTryBody(row_letter, col_part) ==
    IF ~IntParses(col_part) THEN Raise("ValueError", "invalid literal for int()")
    ELSE ColumnChecked(row_letter, IntValue(col_part))

\* ExceptValueError letting the exception through
ExceptValueError_Pass(r) == r

\* except ValueError: raise ValueError(f"Invalid well format: {v}"), applied
\* to the outcome r of the try block
ExceptValueError(r) ==
    IF ~r.ok /\ r.error.type = "ValueError"
    THEN Raise("ValueError", "Invalid well format")
    ELSE r

\* NormalizeStripped with the row letter checked inside the try block
NormalizeStripped_RowInTry(v) ==
    IF Len(v) < 2 THEN Raise("ValueError", "Invalid well format")
    ELSE ExceptValueError(
            IF ~(Ord(FirstRow) <= Ord(v[1]) /\ Ord(v[1]) <= Ord(LastRow))
            THEN Raise("ValueError", "Invalid row letter")
            ELSE WellTryBody(v[1], Tail(v)))

\* normalize_well_name after v = v.strip().upper(): row_letter is v[0] and
\* col_part is v[1:]
NormalizeStripped(v) ==
    IF Len(v) < 2 THEN Raise("ValueError", "Invalid well format")
    ELSE IF ~(Ord(FirstRow) <= Ord(v[1]) /\ Ord(v[1]) <= Ord(LastRow))
    THEN Raise("ValueError", "Invalid row letter")
    ELSE ExceptValueError(WellTryBody(v[1], Tail(v)))

\* AssayCondition.normalize_well_name
normalize_well_name(well) == NormalizeStripped(Upper(Strip(well)))

\* The instance, given the outcome r of the well validator: a ValueError of
\* the validator leaves the constructor as a ValidationError with its message
Validated(plate, r, conditions) ==
    IF ~r.ok THEN Raise("ValidationError", r.error.msg)
    ELSE Returned([plate |-> plate, well |-> r.value, conditions |-> conditions])

\* AssayCondition(plate=..., well=..., conditions=...): the fields are
\* validated (plate and well are str), then the well validator runs
AssayCondition(plate, well, conditions) ==
    IF plate = None \/ well = None
    THEN Raise("ValidationError", "Input should be a valid string")
    ELSE Validated(plate, normalize_well_name(well), conditions)

-----------------------------------------------------------------------------
(* String literals of the source *)

S_Plate == <<"P", "l", "a", "t", "e">>
S_Well == <<"W", "e", "l", "l">>
S_Empty == <<>>
SHEET_INVESTIGATION ==
    <<"I", "n", "v", "e", "s", "t", "i", "g", "a", "t", "i", "o", "n",
      "I", "n", "f", "o", "r", "m", "a", "t", "i", "o", "n">>
SHEET_STUDY ==
    <<"S", "t", "u", "d", "y", "I", "n", "f", "o", "r", "m", "a", "t", "i", "o", "n">>
SHEET_ASSAY ==
    <<"A", "s", "s", "a", "y", "I", "n", "f", "o", "r", "m", "a", "t", "i", "o", "n">>
SHEET_CONDITIONS ==
    <<"A", "s", "s", "a", "y", "C", "o", "n", "d", "i", "t", "i", "o", "n", "s">>
REF_PREFIX == <<"_">>

-----------------------------------------------------------------------------
(* The flat upload dict: a sequence of items with distinct keys, in          *)
(* insertion order.  kind is the Python type of the value: "groups" a dict   *)
(* of dicts, "dict" a dict of scalars, "list" a list of dicts, "str".        *)

Item(k, kind, v) == <<k, kind, v>>

ItemKey(it) == it[1]

ItemKind(it) == it[2]

ItemValue(it) == it[3]

Keys(d) == {ItemKey(d[i]) : i \in 1..Len(d)}

\* k in d
HasKey(d, k) == k \in Keys(d)

\* the item of d[k]
GetItem(d, k) == d[CHOOSE i \in 1..Len(d) : ItemKey(d[i]) = k]

\* d[k] = v: an existing key keeps its place, a new key goes last
SetItem(d, k, kind, v) ==
    IF HasKey(d, k)
    THEN [i \in 1..Len(d) |-> IF ItemKey(d[i]) = k THEN Item(k, kind, v) ELSE d[i]]
    ELSE Append(d, Item(k, kind, v))

\* isinstance(value, dict)
IsDictItem(it) == ItemKind(it) \in {"groups", "dict"}

\* the value validates as Dict[str, Dict[str, Any]]
IsGroupsItem(it) == ItemKind(it) = "groups" \/ (ItemKind(it) = "dict" /\ ItemValue(it) = {})

-----------------------------------------------------------------------------
(* dicts as sets of items *)

\* d.keys()
DictKeys(d) == {p[1] : p \in d}

\* d[k]
DictGet(d, k) == (CHOOSE p \in d : p[1] = k)[2]

\* d.get(k, default)
GetOr(d, k, default) == IF k \in DictKeys(d) THEN DictGet(d, k) ELSE default

\* d[k] = v
DictSet(d, k, v) == {p \in d : p[1] # k} \cup {<<k, v>>}

\* {**a, **b}: the items of b replace those of a with the same key
DictMerge(a, b) == {p \in a : p[1] \notin DictKeys(b)} \cup b

-----------------------------------------------------------------------------
(* models.py: MIHCSMEMetadata *)

Tier(groups) == [groups |-> groups]

ReferenceSheet(name, data) == [name |-> name, data |-> data]

MIHCSMEMetadata(inv, study, assay, conds, refs) ==
    [investigation_information |-> inv,
     study_information |-> study,
     assay_information |-> assay,
     assay_conditions |-> conds,
     reference_sheets |-> refs]

\* ConditionDict without the condition fields
ConditionDict_NoFields(c) == {<<S_Plate, c.plate>>, <<S_Well, c.well>>}

\* {"Plate": condition.plate, "Well": condition.well, **condition.conditions}
ConditionDict(c) ==
    DictMerge({<<S_Plate, c.plate>>, <<S_Well, c.well>>}, c.conditions)

\* result[ref_sheet.name] = ref_sheet.data, for each reference sheet in turn
RECURSIVE AddReferenceSheets(_, _)
AddReferenceSheets(result, refs) ==
    IF refs = <<>> THEN result
    ELSE AddReferenceSheets(SetItem(result, Head(refs).name, "dict", Head(refs).data),
                            Tail(refs))

\* if tier: result[key] = tier.groups
WithTier(result, key, tier) ==
    IF tier # NoObject THEN SetItem(result, key, "groups", tier.groups) ELSE result

\* if self.assay_conditions: result["AssayConditions"] = [condition_dict, ...]
WithConditions(result, conds) ==
    IF conds # <<>>
    THEN SetItem(result, SHEET_CONDITIONS, "list",
                 [i \in 1..Len(conds) |-> ConditionDict(conds[i])])
    ELSE result

\* MIHCSMEMetadata.to_omero_dict
to_omero_dict(m) ==
    AddReferenceSheets(
        WithConditions(
            WithTier(
                WithTier(
                    WithTier(<<>>, SHEET_INVESTIGATION, m.investigation_information),
                    SHEET_STUDY, m.study_information),
                SHEET_ASSAY, m.assay_information),
            m.assay_conditions),
        m.reference_sheets)

\* mutant: the plate and the well are written into the condition's own dict
ConditionAfterSpread_InPlace(c) == [c EXCEPT !.conditions = ConditionDict(c)]

\* the condition once its dict is built: the dict display makes a new dict,
\* the spread only reads condition.conditions
ConditionAfterSpread(c) == c

\* self once to_omero_dict has returned: the tiers and the reference sheets
\* are read, and so is each condition
SelfAfter_to_omero_dict(m) ==
    [m EXCEPT !.assay_conditions =
        [i \in 1..Len(m.assay_conditions) |-> ConditionAfterSpread(m.assay_conditions[i])]]

\* InvestigationInformation(groups=data[key]) and its two siblings, when the
\* key is in data: the value has to validate as a dict of dicts
TierFrom(data, key) ==
    IF ~HasKey(data, key) THEN Returned(NoObject)
    ELSE IF ~IsGroupsItem(GetItem(data, key))
    THEN Raise("ValidationError", "Input should be a valid dictionary")
    ELSE Returned(Tier(ItemValue(GetItem(data, key))))

\* One iteration of the loop over data["AssayConditions"]
ConditionFrom(condition_dict) ==
    AssayCondition(GetOr(condition_dict, S_Plate, S_Empty),
                   GetOr(condition_dict, S_Well, S_Empty),
                   {p \in condition_dict : p[1] \notin {S_Plate, S_Well}})

RECURSIVE ConditionsFrom(_, _)

\* mutant: an entry whose constructor raises is left out
ConditionsAppend_Skip(list, acc, r) ==
    IF ~r.ok THEN ConditionsFrom(Tail(list), acc)
    ELSE ConditionsFrom(Tail(list), Append(acc, r.value))

\* assay_conditions.append(...) when the constructor returned; its exception
\* ends the loop
ConditionsAppend(list, acc, r) ==
    IF ~r.ok THEN r ELSE ConditionsFrom(Tail(list), Append(acc, r.value))

\* The loop over data["AssayConditions"]
ConditionsFrom(list, acc) ==
    IF list = <<>> THEN Returned(acc)
    ELSE ConditionsAppend(list, acc, ConditionFrom(Head(list)))

\* The assay_conditions of from_omero_dict
ConditionListFrom(data) ==
    IF HasKey(data, SHEET_CONDITIONS) /\ ItemKind(GetItem(data, SHEET_CONDITIONS)) = "list"
    THEN ConditionsFrom(ItemValue(GetItem(data, SHEET_CONDITIONS)), <<>>)
    ELSE Returned(<<>>)

\* The loop over data.items() that collects the reference sheets
RECURSIVE ReferenceSheetsFrom(_)
ReferenceSheetsFrom(data) ==
    IF data = <<>> THEN <<>>
    ELSE IF StartsWith(ItemKey(Head(data)), REF_PREFIX) /\ IsDictItem(Head(data))
    THEN <<ReferenceSheet(ItemKey(Head(data)), ItemValue(Head(data)))>>
         \o ReferenceSheetsFrom(Tail(data))
    ELSE ReferenceSheetsFrom(Tail(data))

\* from_omero_dict given the outcomes of its parts, in the order of the code:
\* the first exception leaves the call, else cls(...) is returned
MetadataFrom(data, inv, study, assay, conds) ==
    IF ~inv.ok THEN inv
    ELSE IF ~study.ok THEN study
    ELSE IF ~assay.ok THEN assay
    ELSE IF ~conds.ok THEN conds
    ELSE Returned(MIHCSMEMetadata(inv.value, study.value, assay.value, conds.value,
                                  ReferenceSheetsFrom(data)))

\* MIHCSMEMetadata.from_omero_dict
from_omero_dict(data) ==
    MetadataFrom(data,
                 TierFrom(data, SHEET_INVESTIGATION),
                 TierFrom(data, SHEET_STUDY),
                 TierFrom(data, SHEET_ASSAY),
                 ConditionListFrom(data))

\* a condition dict of the input once it is read: get and items do not write
ConditionDictAfterGet(condition_dict) == condition_dict

\* an item of the input once from_omero_dict has returned
ItemAfter(it) ==
    IF ItemKey(it) = SHEET_CONDITIONS /\ ItemKind(it) = "list"
    THEN Item(ItemKey(it), "list",
              [i \in 1..Len(ItemValue(it)) |-> ConditionDictAfterGet(ItemValue(it)[i])])
    ELSE it

\* data once from_omero_dict has returned or raised
DataAfter_from_omero_dict(data) == [i \in 1..Len(data) |-> ItemAfter(data[i])]

-----------------------------------------------------------------------------
(* parser.py.  A workbook is [sheet_names, sheets]: the names in workbook   *)
(* order and, for each name, the sheet as a sequence of rows of cells (a    *)
(* cell is a str or NaN).  A DataFrame is [ncols, rows], each row carrying  *)
(* its index label idx and its cells.                                       *)

S_Hash == <<"#">>
S_nan == <<"n", "a", "n">>
S_Annotation_groups ==
    <<"A", "n", "n", "o", "t", "a", "t", "i", "o", "n", "_", "g", "r", "o", "u", "p", "s">>

\* pd.isna(x)
IsNa(x) == x = NaN

\* str(x) of a cell
StrOf(x) == IF x = NaN THEN S_nan ELSE x

\* pd.read_excel(xls, sheet_name=...): the first row of the sheet becomes the
\* column labels, the rows after it are the frame's rows, labelled from 0
ReadExcel(grid) ==
    IF grid = <<>> THEN [ncols |-> 0, rows |-> <<>>]
    ELSE [ncols |-> Len(grid[1]),
          rows |-> [i \in 1..(Len(grid) - 1) |-> [idx |-> i - 1, cells |-> grid[i + 1]]]]

\* df[~df.iloc[:, 0].astype(str).str.startswith("#")]
RECURSIVE DropCommentRows(_)
DropCommentRows(rows) ==
    IF rows = <<>> THEN <<>>
    ELSE IF StartsWith(StrOf(Head(rows).cells[1]), S_Hash)
    THEN DropCommentRows(Tail(rows))
    ELSE <<Head(rows)>> \o DropCommentRows(Tail(rows))

\* df.dropna(how="all")
RECURSIVE DropEmptyRows(_)
DropEmptyRows(rows) ==
    IF rows = <<>> THEN <<>>
    ELSE IF \A j \in 1..Len(Head(rows).cells) : IsNa(Head(rows).cells[j])
    THEN DropEmptyRows(Tail(rows))
    ELSE <<Head(rows)>> \o DropEmptyRows(Tail(rows))

\* mutant: a key that the group already holds keeps its value
SetField_KeepFirst(sheet_data, group, key, value) ==
    IF key \in DictKeys(GetOr(sheet_data, group, {})) THEN sheet_data
    ELSE DictSet(sheet_data, group,
                 DictSet(GetOr(sheet_data, group, {}), key, IF IsNa(value) THEN None ELSE value))

\* sheet_data[group][key] = None if pd.isna(value) else value, the group
\* being initialized first if it is new
SetField(sheet_data, group, key, value) ==
    DictSet(sheet_data, group,
            DictSet(GetOr(sheet_data, group, {}), key, IF IsNa(value) THEN None ELSE value))

\* One row of the loop of _parse_key_value_sheet: group, key and value are
\* its first three cells
KeyValueRow(row, sheet_data) ==
    IF IsNa(row[1]) \/ row[1] = S_Annotation_groups \/ StartsWith(StrOf(row[1]), S_Hash)
    THEN sheet_data
    ELSE IF ~(Len(row) > 2) THEN sheet_data
    ELSE IF IsNa(row[2]) THEN sheet_data
    ELSE SetField(sheet_data, row[1], row[2], row[3])

\* The loop of _parse_key_value_sheet over df.iterrows()
RECURSIVE KeyValueRows(_, _)
KeyValueRows(rows, sheet_data) ==
    IF rows = <<>> THEN sheet_data
    ELSE KeyValueRows(Tail(rows), KeyValueRow(Head(rows).cells, sheet_data))

\* _parse_key_value_sheet on the frame read
KeyValueFrame(df) ==
    IF df.ncols = 0 THEN Raise("IndexError", "single positional indexer is out-of-bounds")
    ELSE Returned(KeyValueRows(DropCommentRows(df.rows), {}))

\* _parse_key_value_sheet
parse_key_value_sheet(grid) == KeyValueFrame(ReadExcel(grid))

\* the columns that carry the label name
Positions(headers, name) == {j \in 1..Len(headers) : headers[j] = name}

\* the columns of data_rows other than Plate and Well: those with a NaN label
\* are dropped
OtherColumns(headers) ==
    {j \in 1..Len(headers) : ~IsNa(headers[j]) /\ headers[j] \notin {S_Plate, S_Well}}

\* row.get(name) when one column carries the label
Cell(row, headers, name) == row[CHOOSE j \in Positions(headers, name) : TRUE]

\* the conditions dict of a row: the other columns that are not NaN in it
RowConditions(row, headers) ==
    {<<headers[j], row[j]>> : j \in {i \in OtherColumns(headers) : ~IsNa(row[i])}}

RECURSIVE ConditionRows(_, _, _)

\* assay_conditions.append(...) when the constructor returned; its exception
\* ends the loop
ConditionRowsAppend(rows, headers, acc, r) ==
    IF ~r.ok THEN r ELSE ConditionRows(Tail(rows), headers, Append(acc, r.value))

\* One row of the loop of _parse_assay_conditions.  A label carried by two
\* columns selects a Series, whose truth value is ambiguous.
ConditionRow(rows, row, headers, acc) ==
    IF Cardinality(Positions(headers, S_Plate)) > 1 \/ Cardinality(Positions(headers, S_Well)) > 1
    THEN Raise("ValueError", "The truth value of a Series is ambiguous")
    ELSE IF IsNa(Cell(row, headers, S_Plate)) \/ IsNa(Cell(row, headers, S_Well))
    THEN ConditionRows(Tail(rows), headers, acc)
    ELSE IF \E i, j \in OtherColumns(headers) : i # j /\ headers[i] = headers[j]
    THEN Raise("ValueError", "The truth value of a Series is ambiguous")
    ELSE ConditionRowsAppend(rows, headers, acc,
            AssayCondition(StrOf(Cell(row, headers, S_Plate)),
                           StrOf(Cell(row, headers, S_Well)),
                           RowConditions(row, headers)))

\* The loop of _parse_assay_conditions over data_rows.iterrows(); headers are
\* the column labels given to data_rows
ConditionRows(rows, headers, acc) ==
    IF rows = <<>> THEN Returned(acc)
    ELSE ConditionRow(rows, Head(rows).cells, headers, acc)

\* _parse_assay_conditions on the rows left once the comment rows are dropped:
\* the first one is the header
ConditionsTable(rows) ==
    IF rows = <<>> THEN Returned(<<>>)
    ELSE IF Positions(rows[1].cells, S_Plate) = {} \/ Positions(rows[1].cells, S_Well) = {}
    THEN Raise("ValueError", "Missing required 'Plate' or 'Well' column")
    ELSE ConditionRows(Tail(rows), rows[1].cells, <<>>)

\* _parse_assay_conditions on the frame read
ConditionsFrame(df) ==
    IF df.ncols = 0 THEN Raise("IndexError", "single positional indexer is out-of-bounds")
    ELSE ConditionsTable(DropCommentRows(df.rows))

\* _parse_assay_conditions
parse_assay_conditions(grid) == ConditionsFrame(ReadExcel(grid))

\* The loop of _parse_reference_sheet over data_rows.iterrows()
RECURSIVE ReferenceRows(_, _)
ReferenceRows(rows, ref_data) ==
    IF rows = <<>> THEN ref_data
    ELSE LET row == Head(rows).cells
         IN IF Len(row) >= 2 /\ ~IsNa(row[1])
            THEN ReferenceRows(Tail(rows),
                    DictSet(ref_data, StrOf(row[1]), IF IsNa(row[2]) THEN None ELSE row[2]))
            ELSE ReferenceRows(Tail(rows), ref_data)

\* _parse_reference_sheet on the rows left once the comment rows and the
\* empty rows are dropped.  header_row_idx is the index label of the first of
\* them, and df.iloc[header_row_idx] uses it as a position, which raises
\* IndexError when it is not below the number of rows left
ReferenceTable(rows, header_row_idx) ==
    IF header_row_idx + 1 > Len(rows)
    THEN Raise("IndexError", "single positional indexer is out-of-bounds")
    ELSE IF Len(rows[header_row_idx + 1].cells) < 2 THEN Returned({})
    ELSE Returned(ReferenceRows(SubSeq(rows, header_row_idx + 2, Len(rows)), {}))

\* _parse_reference_sheet on the rows left once the comment rows and the
\* empty rows are dropped
ReferenceKept(rows) ==
    IF rows = <<>> THEN Returned({}) ELSE ReferenceTable(rows, rows[1].idx)

\* the try block of _parse_reference_sheet on the frame read
ReferenceFrame(df) ==
    IF df.ncols = 0 THEN Raise("IndexError", "single positional indexer is out-of-bounds")
    ELSE ReferenceKept(DropEmptyRows(DropCommentRows(df.rows)))

\* ExceptException letting the exception through
ExceptException_Raise(r) == r

\* except Exception as e: logger.error(...); return {}
ExceptException(r) == IF r.ok THEN r ELSE Returned({})

\* _parse_reference_sheet
parse_reference_sheet(grid) == ExceptException(ReferenceFrame(ReadExcel(grid)))

\* if ref_data: reference_sheets.append(ReferenceSheet(name=sheet_name, data=ref_data))
ReferenceSheetOf(sheet_name, ref_data) ==
    IF ref_data # {} THEN <<ReferenceSheet(sheet_name, ref_data)>> ELSE <<>>

RECURSIVE ParseReferenceSheets(_, _, _)

\* the rest of the loop once _parse_reference_sheet has ended for the first of
\* names: an exception of it would leave the loop
ReferenceSheetsAppend(wb, names, acc, r) ==
    IF ~r.ok THEN r
    ELSE ParseReferenceSheets(wb, Tail(names), acc \o ReferenceSheetOf(Head(names), r.value))

\* The loop of parse_excel_to_model over available_sheets
ParseReferenceSheets(wb, names, acc) ==
    IF names = <<>> THEN Returned(acc)
    ELSE IF StartsWith(Head(names), REF_PREFIX)
    THEN ReferenceSheetsAppend(wb, names, acc, parse_reference_sheet(wb.sheets[Head(names)]))
    ELSE ParseReferenceSheets(wb, Tail(names), acc)

required_sheets == <<SHEET_INVESTIGATION, SHEET_STUDY, SHEET_ASSAY, SHEET_CONDITIONS>>

\* MissingSheets stopping at the first missing sheet
RECURSIVE MissingSheets_FirstOnly(_, _)
MissingSheets_FirstOnly(required, available) ==
    IF required = <<>> THEN <<>>
    ELSE IF \E i \in 1..Len(available) : available[i] = Head(required)
    THEN MissingSheets_FirstOnly(Tail(required), available)
    ELSE <<Head(required)>>

\* [s for s in required_sheets if s not in available_sheets]
RECURSIVE MissingSheets(_, _)
MissingSheets(required, available) ==
    IF required = <<>> THEN <<>>
    ELSE IF \E i \in 1..Len(available) : available[i] = Head(required)
    THEN MissingSheets(Tail(required), available)
    ELSE <<Head(required)>> \o MissingSheets(Tail(required), available)

\* mutant: a sheet with no field gives no tier
ParsedTier_None(sheet_data) == IF sheet_data # {} THEN Tier(sheet_data) ELSE NoObject

\* A tier of parse_excel_to_model: the parsed dict is wrapped when it is not
\* empty; an empty dict is handed to MIHCSMEMetadata as it is, which validates
\* it into a tier with the default groups
ParsedTier(sheet_data) == IF sheet_data # {} THEN Tier(sheet_data) ELSE Tier({})

\* The call when it ends with xls in state h
Ended(result, h) == [result |-> result, xls |-> h]

\* the end of parse_excel_to_model, the reference sheets parsed: the workbook
\* is closed and the Metadata is returned
WithReferenceSheets(inv, study, assay, conds, refs) ==
    IF ~refs.ok THEN Ended(refs, "open")
    ELSE Ended(Returned(MIHCSMEMetadata(
                   ParsedTier(inv.value), ParsedTier(study.value), ParsedTier(assay.value),
                   conds.value, refs.value)),
               "closed")

\* parse_excel_to_model given the outcomes of the four required sheets, in the
\* order of the code: the first exception leaves the call with the workbook
\* open; else the reference sheets are parsed
ParsedSheets(wb, inv, study, assay, conds) ==
    IF ~inv.ok THEN Ended(inv, "open")
    ELSE IF ~study.ok THEN Ended(study, "open")
    ELSE IF ~assay.ok THEN Ended(assay, "open")
    ELSE IF ~conds.ok THEN Ended(conds, "open")
    ELSE WithReferenceSheets(inv, study, assay, conds,
                             ParseReferenceSheets(wb, wb.sheet_names, <<>>))

\* parse_excel_to_model once missing_sheets is computed
CheckedSheets(wb, missing_sheets) ==
    IF missing_sheets # <<>>
    THEN Ended(RaiseNames("ValueError", "Missing required sheets", missing_sheets), "open")
    ELSE ParsedSheets(wb,
                      parse_key_value_sheet(wb.sheets[SHEET_INVESTIGATION]),
                      parse_key_value_sheet(wb.sheets[SHEET_STUDY]),
                      parse_key_value_sheet(wb.sheets[SHEET_ASSAY]),
                      parse_assay_conditions(wb.sheets[SHEET_CONDITIONS]))

\* parse_excel_to_model from the opening of the workbook on: the result and
\* the state of the workbook handle when the call ends
parse_workbook(wb) == CheckedSheets(wb, MissingSheets(required_sheets, wb.sheet_names))

EXCEL_SUFFIXES == {<<".", "x", "l", "s", "x">>, <<".", "x", "l", "s">>}

\* parse_excel_to_model(excel_path); file is [exists, suffix, workbook]
parse_excel_to_model(file) ==
    IF ~file.exists
    THEN Ended(Raise("FileNotFoundError", "Excel file not found"), "unopened")
    ELSE IF Lower(file.suffix) \notin EXCEL_SUFFIXES
    THEN Ended(Raise("ValueError", "File must be Excel format (.xlsx/.xls)"), "unopened")
    ELSE parse_workbook(file.workbook)

-----------------------------------------------------------------------------
(* omero_connection.py.  conn is the server as seen through the gateway: the *)
(* objects that exist (each a pair <<type, id>>), the saved annotations     *)
(* [id, ns, value], the links <<object, annotation id>> and the id the       *)
(* server gives to the next saved annotation.  A returned int n is the      *)
(* record [int |-> n], a returned None the record ReturnedNone.             *)

S_Screen == <<"S", "c", "r", "e", "e", "n">>
S_None == <<"N", "o", "n", "e">>

PyInt(n) == [int |-> n]
ReturnedNone == [none |-> TRUE]

\* bool(x) of a str or None
Truthy(x) == x # None /\ x # <<>>

\* bool(d) of a dict
TruthyDict(d) == d # {}

\* str(v) of a value of the mapping
StrOfValue(v) == IF v = None THEN S_None ELSE v

\* conn.getObject(object_type, object_id) is not None
ObjectFound(conn_, object_type, object_id) == <<object_type, object_id>> \in conn_.objects

\* map_ann.save(): the server stores the annotation under a new id
Save(conn_, ns, value) ==
    [conn_ EXCEPT !.annotations = @ \cup {[id |-> conn_.next_id, ns |-> ns, value |-> value]},
                  !.next_id = @ + 1]

\* obj.linkAnnotation(map_ann)
LinkAnnotation(conn_, object_type, object_id, ann_id) ==
    [conn_ EXCEPT !.links = @ \cup {<<<<object_type, object_id>>, ann_id>>}]

\* obj.listAnnotations()
ListAnnotations(conn_, object_type, object_id) ==
    {ann \in conn_.annotations : <<<<object_type, object_id>>, ann.id>> \in conn_.links}

\* conn.deleteObjects("Annotation", ids, wait=True): the annotations are gone,
\* with their links, when the call returns
DeleteObjects(conn_, ids) ==
    [conn_ EXCEPT !.annotations = {ann \in @ : ann.id \notin ids},
                  !.links = {l \in @ : l[2] \notin ids}]

\* KeyValueList keeping the values as they are
KeyValueList_Raw(key_value_pairs) == key_value_pairs

\* [[str(k), str(v)] for k, v in key_value_pairs.items()]; the keys are str
KeyValueList(key_value_pairs) ==
    {<<StrOfValue(p[1]), StrOfValue(p[2])>> : p \in key_value_pairs}

\* the outcome of a call of omero_connection.py: what it returns or raises,
\* the server after it, and the ids it asked the server to delete
Outcome(result, conn_, deleted) == [result |-> result, conn |-> conn_, deleted |-> deleted]

\* create_map_annotation once the object is found: the annotation is created,
\* saved and linked, and its id is returned
CreateLinked(conn_, object_type, object_id, key_value_pairs, namespace) ==
    Outcome(Returned(PyInt(conn_.next_id)),
            LinkAnnotation(Save(conn_, namespace, KeyValueList(key_value_pairs)),
                           object_type, object_id, conn_.next_id),
            {})

\* create_map_annotation that does not look the object up
create_map_annotation_NoLookup(conn_, object_type, object_id, key_value_pairs, namespace) ==
    IF ~TruthyDict(key_value_pairs) THEN Outcome(Returned(ReturnedNone), conn_, {})
    ELSE CreateLinked(conn_, object_type, object_id, key_value_pairs, namespace)

\* create_map_annotation
create_map_annotation(conn_, object_type, object_id, key_value_pairs, namespace) ==
    IF ~TruthyDict(key_value_pairs) THEN Outcome(Returned(ReturnedNone), conn_, {})
    ELSE IF ~ObjectFound(conn_, object_type, object_id)
    THEN Outcome(RaiseNames("ValueError", "not found", <<object_type, NatToStr(object_id)>>),
                 conn_, {})
    ELSE CreateLinked(conn_, object_type, object_id, key_value_pairs, namespace)

\* the loop of delete_annotations_from_object passes over ann: a namespace is
\* given, ann has one, and it does not start with the namespace given
PassedOver(ann, namespace) ==
    Truthy(namespace) /\ Truthy(ann.ns) /\ ~StartsWith(ann.ns, namespace)

\* annotations_to_delete, as a set of ids
AnnotationsToDelete(conn_, object_type, object_id, namespace) ==
    {ann.id : ann \in {a \in ListAnnotations(conn_, object_type, object_id) :
                          ~PassedOver(a, namespace)}}

\* if annotations_to_delete: conn.deleteObjects(...); return len(annotations_to_delete)
DeleteListed(conn_, ids) ==
    Outcome(Returned(PyInt(Cardinality(ids))),
            IF ids # {} THEN DeleteObjects(conn_, ids) ELSE conn_,
            ids)

\* delete_annotations_from_object
delete_annotations_from_object(conn_, object_type, object_id, namespace) ==
    IF ~ObjectFound(conn_, object_type, object_id) THEN Outcome(Returned(PyInt(0)), conn_, {})
    ELSE DeleteListed(conn_, AnnotationsToDelete(conn_, object_type, object_id, namespace))

-----------------------------------------------------------------------------
(* uploader.py: the grouping of flat fields (_organize_into_groups) and the  *)
(* download of a Metadata from the server.  The taxonomy is the table of     *)
(* field names per group: a field belongs to a group when its name is one   *)
(* of the group's fields or begins with one of the group's patterns.        *)

G_Metadata == <<"M", "e", "t", "a", "d", "a", "t", "a">>
G_DataOwner == <<"D", "a", "t", "a", "O", "w", "n", "e", "r">>
G_InvestigationInfo == <<"I", "n", "v", "e", "s", "t", "i", "g", "a", "t", "i", "o", "n", "I", "n", "f", "o">>
G_DataCollaborator == <<"D", "a", "t", "a", "C", "o", "l", "l", "a", "b", "o", "r", "a", "t", "o", "r">>

\* an entry of the taxonomy
FieldGroup(group, fields, patterns) == [group |-> group, fields |-> fields, patterns |-> patterns]

\* the taxonomy, in the order in which the groups are tried
FIELD_GROUPS ==
    <<FieldGroup(G_DataOwner,
         {<<"F", "i", "r", "s", "t", " ", "N", "a", "m", "e">>,
          <<"L", "a", "s", "t", " ", "N", "a", "m", "e">>,
          <<"E", "-", "M", "a", "i", "l", " ", "A", "d", "d", "r", "e", "s", "s">>},
         {<<"O", "R", "C", "I", "D", " ", "i", "n", "v", "e", "s", "t", "i", "g", "a", "t", "o", "r">>}),
      FieldGroup(G_InvestigationInfo,
         {<<"P", "r", "o", "j", "e", "c", "t", " ", "I", "D">>,
          <<"I", "n", "v", "e", "s", "t", "i", "g", "a", "t", "i", "o", "n", " ", "T", "i", "t", "l", "e">>},
         {}),
      FieldGroup(G_DataCollaborator,
         {},
         {<<"O", "R", "C", "I", "D", " ", " ", "D", "a", "t", "a", " ", "C", "o", "l", "l", "a", "b", "o", "r", "a", "t", "o", "r">>}),
      FieldGroup(<<"S", "t", "u", "d", "y">>,
         {<<"S", "t", "u", "d", "y", " ", "T", "i", "t", "l", "e">>,
          <<"S", "t", "u", "d", "y", " ", "i", "n", "t", "e", "r", "n", "a", "l", " ", "I", "D">>},
         {}),
      FieldGroup(<<"B", "i", "o", "s", "a", "m", "p", "l", "e">>,
         {<<"B", "i", "o", "s", "a", "m", "p", "l", "e", " ", "T", "a", "x", "o", "n">>,
          <<"B", "i", "o", "s", "a", "m", "p", "l", "e", " ", "O", "r", "g", "a", "n", "i", "s", "m">>,
          <<"C", "e", "l", "l", " ", "l", "i", "n", "e", "s", " ", "s", "t", "o", "r", "a", "g", "e", " ", "l", "o", "c", "a", "t", "i", "o", "n">>},
         {}),
      FieldGroup(<<"L", "i", "b", "r", "a", "r", "y">>,
         {<<"L", "i", "b", "r", "a", "r", "y", " ", "F", "i", "l", "e", " ", "N", "a", "m", "e">>,
          <<"L", "i", "b", "r", "a", "r", "y", " ", "T", "y", "p", "e">>},
         {}),
      FieldGroup(<<"P", "r", "o", "t", "o", "c", "o", "l", "s">>,
         {<<"H", "C", "S", " ", "l", "i", "b", "r", "a", "r", "y", " ", "p", "r", "o", "t", "o", "c", "o", "l">>},
         {}),
      FieldGroup(<<"P", "l", "a", "t", "e">>,
         {<<"P", "l", "a", "t", "e", " ", "t", "y", "p", "e">>},
         {}),
      FieldGroup(<<"A", "s", "s", "a", "y">>,
         {<<"A", "s", "s", "a", "y", " ", "T", "i", "t", "l", "e">>,
          <<"A", "s", "s", "a", "y", " ", "i", "n", "t", "e", "r", "n", "a", "l", " ", "I", "D">>,
          <<"N", "u", "m", "b", "e", "r", " ", "o", "f", " ", "p", "l", "a", "t", "e", "s">>},
         {}),
      FieldGroup(<<"A", "s", "s", "a", "y", "C", "o", "m", "p", "o", "n", "e", "n", "t">>,
         {<<"I", "m", "a", "g", "i", "n", "g", " ", "p", "r", "o", "t", "o", "c", "o", "l">>,
          <<"S", "a", "m", "p", "l", "e", " ", "p", "r", "e", "p", "a", "r", "a", "t", "i", "o", "n", " ", "p", "r", "o", "t", "o", "c", "o", "l">>},
         {}),
      FieldGroup(<<"I", "m", "a", "g", "e", "D", "a", "t", "a">>,
         {<<"I", "m", "a", "g", "e", " ", "n", "u", "m", "b", "e", "r", " ", "o", "f", " ", "p", "i", "x", "e", "l", "s", "X">>,
          <<"I", "m", "a", "g", "e", " ", "n", "u", "m", "b", "e", "r", " ", "o", "f", " ", "p", "i", "x", "e", "l", "s", "Y">>,
          <<"I", "m", "a", "g", "e", " ", "n", "u", "m", "b", "e", "r", " ", "o", "f", " ", "c", "h", "a", "n", "n", "e", "l", "s">>,
          <<"I", "m", "a", "g", "e", " ", "s", "i", "t", "e", "s", " ", "p", "e", "r", " ", "w", "e", "l", "l">>},
         {}),
      FieldGroup(<<"I", "m", "a", "g", "e", "A", "c", "q", "u", "i", "s", "i", "t", "i", "o", "n">>,
         {<<"M", "i", "c", "r", "o", "s", "c", "o", "p", "e", " ", "i", "d">>},
         {}),
      FieldGroup(<<"S", "p", "e", "c", "i", "m", "e", "n">>,
         {<<"C", "h", "a", "n", "n", "e", "l", " ", "T", "r", "a", "n", "s", "m", "i", "s", "s", "i", "o", "n", " ", "i", "d">>,
          <<"C", "h", "a", "n", "n", "e", "l", " ", "1", " ", "v", "i", "s", "u", "a", "l", "i", "z", "a", "t", "i", "o", "n", " ", "m", "e", "t", "h", "o", "d">>},
         {})>>

\* the field name is one of the entry's fields or begins with one of its patterns
InFieldGroup(entry, key) ==
    \/ key \in entry.fields
    \/ \E p \in entry.patterns : StartsWith(key, p)

\* the positions of the taxonomy whose entry takes the field
GroupsTaking(key) == {i \in 1..Len(FIELD_GROUPS) : InFieldGroup(FIELD_GROUPS[i], key)}

\* the group of a field: the first entry that takes it, else the catch-all
GroupOf(key) ==
    IF GroupsTaking(key) = {} THEN G_Metadata
    ELSE FIELD_GROUPS[CHOOSE i \in GroupsTaking(key) : \A j \in GroupsTaking(key) : i <= j].group

\* the items of the flat dict that go to a group
GroupItems(flat_dict, group) == {it \in flat_dict : GroupOf(it[1]) = group}

\* mutant: a field that no group of the taxonomy takes is left out
organize_into_groups_Known(flat_dict) ==
    {<<g, GroupItems(flat_dict, g)>> : g \in {GroupOf(it[1]) : it \in flat_dict} \ {G_Metadata}}

\* _organize_into_groups(flat_dict): a dict of the groups that have a field,
\* each with its fields
organize_into_groups(flat_dict) ==
    {<<g, GroupItems(flat_dict, g)>> : g \in {GroupOf(it[1]) : it \in flat_dict}}

(* The download.  remote is the server as the download reads it: the objects *)
(* that getObject can return, each [type, id, name, annotations, children];  *)
(* the children of a Screen are its Plates, those of a Plate its Wells       *)
(* [row, column, annotations], with zero-based row and column.  An           *)
(* annotation is [ns, value], value the list of its pairs <<key, value>>.    *)

\* s.split("/"), cur the part being read: Split(s) is SplitFrom(s, <<>>)
RECURSIVE SplitFrom(_, _)
SplitFrom(s, cur) ==
    IF s = <<>> THEN <<cur>>
    ELSE IF <<Head(s)>> = <<"/">> THEN <<cur>> \o SplitFrom(Tail(s), <<>>)
    ELSE SplitFrom(Tail(s), Append(cur, Head(s)))

\* conn.getObject(target_type, target_id) finds an object
ObjectExists(remote, target_type, target_id) ==
    \E o \in remote.objects : o.type = target_type /\ o.id = target_id

\* conn.getObject(target_type, target_id), when there is one
GetObject(remote, target_type, target_id) ==
    CHOOSE o \in remote.objects : o.type = target_type /\ o.id = target_id

\* the pairs of an annotation put into a dict: a later pair replaces an
\* earlier one with the same key
RECURSIVE PairsInto(_, _)
PairsInto(pairs, d) ==
    IF pairs = <<>> THEN d
    ELSE PairsInto(Tail(pairs), DictSet(d, Head(pairs)[1], Head(pairs)[2]))

\* the namespace of the annotations that hold the conditions of a well
ConditionsNamespace(namespace) == namespace \o <<"/">> \o SHEET_CONDITIONS

\* the annotation belongs to a tier: its namespace is namespace/tier or
\* namespace/tier/group
InTier(ann, namespace, tier) ==
    /\ StartsWith(ann.ns, namespace \o <<"/">>)
    /\ SplitFrom(SubSeq(ann.ns, Len(namespace) + 2, Len(ann.ns)), <<>>)[1] = tier

\* the pairs of the annotations of a tier, as one flat dict
RECURSIVE TierFields(_, _, _, _)
TierFields(annotations, namespace, tier, d) ==
    IF annotations = <<>> THEN d
    ELSE IF InTier(Head(annotations), namespace, tier)
    THEN TierFields(Tail(annotations), namespace, tier, PairsInto(Head(annotations).value, d))
    ELSE TierFields(Tail(annotations), namespace, tier, d)

\* the tier of the target, read from its annotations and grouped; none when
\* the target has no field of the tier
DownloadedTier(target, namespace, tier) ==
    IF TierFields(target.annotations, namespace, tier, {}) = {} THEN NoObject
    ELSE Tier(organize_into_groups(TierFields(target.annotations, namespace, tier, {})))

\* the well has an annotation in the conditions namespace
HasConditions(well, ns) == \E i \in 1..Len(well.annotations) : well.annotations[i].ns = ns

\* the pairs of the well's annotations in the conditions namespace
RECURSIVE WellPairs(_, _, _)
WellPairs(annotations, ns, d) ==
    IF annotations = <<>> THEN d
    ELSE IF Head(annotations).ns = ns
    THEN WellPairs(Tail(annotations), ns, PairsInto(Head(annotations).value, d))
    ELSE WellPairs(Tail(annotations), ns, d)

\* mutant: the column index is used as it is
WellLabel_ZeroBased(row, column) == <<Chr(Ord("A") + row)>> \o Format02d(column)

\* the label of the well at a zero-based row and column: 0, 0 is A01
WellLabel(row, column) == <<Chr(Ord("A") + row)>> \o Format02d(column + 1)

\* the WellCondition of a well of a plate
WellCondition(plate, well, ns) ==
    AssayCondition(plate.name, WellLabel(well.row, well.column),
                   WellPairs(well.annotations, ns, {}))

RECURSIVE WellsInto(_, _, _, _)

\* the WellCondition of the first well is built or its construction fails
WellAppend(plate, wells, ns, acc, r) ==
    IF ~r.ok THEN r ELSE WellsInto(plate, Tail(wells), ns, Append(acc, r.value))

\* the loop over the wells of a plate: a well with no conditions annotation
\* is skipped
WellsInto(plate, wells, ns, acc) ==
    IF wells = <<>> THEN Returned(acc)
    ELSE IF ~HasConditions(Head(wells), ns) THEN WellsInto(plate, Tail(wells), ns, acc)
    ELSE WellAppend(plate, wells, ns, acc, WellCondition(plate, Head(wells), ns))

RECURSIVE PlatesInto(_, _, _)

\* the wells of the first plate are read or a construction failed
PlateAppend(plates, ns, r) ==
    IF ~r.ok THEN r ELSE PlatesInto(Tail(plates), ns, r.value)

\* the loop over the plates
PlatesInto(plates, ns, acc) ==
    IF plates = <<>> THEN Returned(acc)
    ELSE PlateAppend(plates, ns, WellsInto(Head(plates), Head(plates).children, ns, acc))

\* the plates whose wells are read: the child Plates of a Screen, else the Plate
PlatesOf(target) == IF target.type = S_Screen THEN target.children ELSE <<target>>

\* the Metadata of the target once its wells are read
Downloaded(target, namespace, conds) ==
    IF ~conds.ok THEN conds
    ELSE Returned(MIHCSMEMetadata(DownloadedTier(target, namespace, SHEET_INVESTIGATION),
                                  DownloadedTier(target, namespace, SHEET_STUDY),
                                  DownloadedTier(target, namespace, SHEET_ASSAY),
                                  conds.value, <<>>))

\* download_metadata_from_omero(conn, target_type, target_id, namespace)
download_metadata_from_omero(remote, target_type, target_id, namespace) ==
    IF ~ObjectExists(remote, target_type, target_id)
    THEN RaiseNames("ValueError", "not found", <<target_type, NatToStr(target_id)>>)
    ELSE Downloaded(GetObject(remote, target_type, target_id), namespace,
                    PlatesInto(PlatesOf(GetObject(remote, target_type, target_id)),
                               ConditionsNamespace(namespace), <<>>))

-----------------------------------------------------------------------------
(* Bounds and the inputs of the calls *)

MaxWellLen == 3
MaxConds == 2
MaxSheetRows == 3

\* all sequences over S of length at most n
SeqsUpTo(S, n) == UNION {[1..k -> S] : k \in 0..n}

\* characters of the well strings tried
WellChars == {"A", "P", "Q", "a", "q", "0", "1", "4", "5", "8", "9", " ", "+", "-", "_"}

WellStrings == SeqsUpTo(WellChars, MaxWellLen)

T_P1 == <<"P", "1">>
T_P2 == <<"P", "2">>
T_PlateA == <<"P", "l", "a", "t", "e", "A">>
T_Compound == <<"C", "o", "m", "p", "o", "u", "n", "d">>
T_DMSO == <<"D", "M", "S", "O">>
T_Group == <<"G">>
T_Key == <<"k">>
T_Value == <<"v">>
T_Ref == <<"_", "R">>
T_Comment == <<"#", "c">>

\* {k: v}
Dict1(k, v) == {<<k, v>>}

\* {k1: v1, k2: v2}
Dict2(k1, v1, k2, v2) == {<<k1, v1>>, <<k2, v2>>}

\* {k1: v1, k2: v2, k3: v3}
Dict3(k1, v1, k2, v2, k3, v3) == {<<k1, v1>>, <<k2, v2>>, <<k3, v3>>}

\* arguments of AssayCondition(...) tried in a directly built MIHCSMEMetadata
ConditionArgs ==
    {[plate |-> p, well |-> w, conditions |-> c] :
        p \in {T_P1},
        w \in {<<"A", "1">>, <<"b", "1", "2">>, <<"Z", "1">>},
        c \in {{}, Dict1(T_Compound, T_DMSO), Dict1(T_Compound, None),
               Dict1(S_Plate, T_P2), Dict1(S_Well, <<"z">>)}}

\* arguments of ReferenceSheet(...) tried in a directly built MIHCSMEMetadata
ReferenceArgs ==
    {[name |-> n, data |-> Dict1(T_Key, T_Value)] : n \in {T_Ref, <<"R">>, SHEET_ASSAY}}

\* groups of a tier tried
GroupChoices == {{}, Dict1(T_Group, Dict1(T_Key, T_Value)), Dict1(T_Group, Dict1(T_Key, None))}

\* entries of "AssayConditions" of the flat dict tried
ConditionDicts ==
    {Dict3(S_Plate, T_P1, S_Well, <<"a", "1">>, T_Compound, T_DMSO),
     Dict2(S_Plate, T_P1, S_Well, <<"b", "1", "2">>),
     Dict3(S_Plate, T_P2, S_Well, <<"A", "0", "1">>, T_Compound, None),
     Dict1(S_Well, <<"P", "4", "8">>),
     Dict1(S_Plate, T_P1),
     Dict2(S_Plate, T_P1, S_Well, <<"Z", "1">>),
     Dict2(S_Plate, T_P1, S_Well, <<"A", "5", "0">>)}

\* an optional item of the flat dict
OptItem(present, k, kind, v) == IF present THEN <<Item(k, kind, v)>> ELSE <<>>

\* the flat dicts of the grammar tried
FlatDicts ==
    {(IF inv = <<>> THEN <<>> ELSE <<Item(SHEET_INVESTIGATION, "groups", inv[1])>>)
     \o OptItem(hasStudy, SHEET_STUDY, "groups", Dict1(T_Group, Dict1(T_Key, T_Value)))
     \o OptItem(hasAssay, SHEET_ASSAY, "groups", {})
     \o OptItem(conds # <<>>, SHEET_CONDITIONS, "list", conds)
     \o OptItem(hasRef, T_Ref, "dict", Dict1(T_Key, T_Value)) :
        inv \in {<<>>} \cup {<<g>> : g \in GroupChoices},
        hasStudy \in BOOLEAN, hasAssay \in BOOLEAN, hasRef \in BOOLEAN,
        conds \in SeqsUpTo(ConditionDicts, MaxConds)}

\* rows of a three-column conditions sheet tried
ConditionSheetRows ==
    {<<T_Comment, NaN, NaN>>,
     <<S_Plate, S_Well, T_Compound>>,
     <<T_PlateA, <<"a", "1">>, T_DMSO>>,
     <<T_PlateA, <<"B", "2">>, NaN>>,
     <<NaN, <<"a", "1">>, T_DMSO>>,
     <<T_PlateA, <<"Z", "1">>, T_DMSO>>}

TierGrid == <<<<T_Comment, NaN, NaN>>, <<S_Annotation_groups, T_Key, T_Value>>,
              <<T_Group, T_Key, T_Value>>, <<T_Group, T_Key, NaN>>>>

ConditionsGrid == <<<<T_Comment, NaN, NaN>>, <<S_Plate, S_Well, T_Compound>>,
                    <<T_PlateA, <<"a", "1">>, T_DMSO>>>>

ReferenceGrid == <<<<T_Key, T_Value>>, <<T_Key, T_Value>>, <<T_Group, NaN>>>>

\* a workbook with the given sheets, in the given order
Workbook(names, cond_grid) ==
    [sheet_names |-> names,
     sheets |-> [n \in {names[i] : i \in 1..Len(names)} |->
                    IF n = SHEET_CONDITIONS THEN cond_grid
                    ELSE IF StartsWith(n, REF_PREFIX) THEN ReferenceGrid
                    ELSE TierGrid]]

AllSheets == required_sheets \o <<T_Ref>>

T_Ref2 == <<"_", "S">>
T_Key2 == <<"j">>
T_Group2 == <<"H">>

\* rows of a three-column tier sheet tried
TierSheetRows ==
    {<<T_Comment, T_Key, T_Value>>,
     <<S_Annotation_groups, T_Key, T_Value>>,
     <<NaN, T_Key, T_Value>>,
     <<T_Group, NaN, T_Value>>,
     <<T_Group, T_Key, T_Value>>,
     <<T_Group, T_Key, NaN>>,
     <<T_Group, T_Key2, NaN>>,
     <<T_Group2, T_Key, NaN>>}

\* rows of a two-column reference sheet tried
ReferenceSheetRows ==
    {<<T_Comment, NaN>>,
     <<NaN, NaN>>,
     <<T_Key, T_Value>>,
     <<T_Key2, NaN>>,
     <<NaN, T_Value>>}

\* all sheets, with a second reference sheet
SheetsWithReferences == required_sheets \o <<T_Ref, T_Ref2>>

\* a workbook with the given sheets, in the given order, the sheets
\* InvestigationInformation, AssayConditions and _R being the given ones
WorkbookOf(names, inv_grid, cond_grid, ref_grid) ==
    [sheet_names |-> names,
     sheets |-> [n \in {names[i] : i \in 1..Len(names)} |->
                    IF n = SHEET_CONDITIONS THEN cond_grid
                    ELSE IF n = SHEET_INVESTIGATION THEN inv_grid
                    ELSE IF n = T_Ref THEN ref_grid
                    ELSE IF StartsWith(n, REF_PREFIX) THEN ReferenceGrid
                    ELSE TierGrid]]

\* the subsequence of s at the positions in I
RECURSIVE Pick(_, _, _)
Pick(s, I, i) ==
    IF i > Len(s) THEN <<>>
    ELSE IF i \in I THEN <<s[i]>> \o Pick(s, I, i + 1) ELSE Pick(s, I, i + 1)

File(exists, suffix, wb) == [exists |-> exists, suffix |-> suffix, workbook |-> wb]

S_xlsx == <<".", "x", "l", "s", "x">>

\* the files tried: workbooks with any part of the sheets, workbooks with all
\* sheets and each conditions sheet, a missing file, other suffixes
Files ==
    {File(TRUE, S_xlsx, Workbook(Pick(AllSheets, I, 1), ConditionsGrid)) :
        I \in SUBSET (1..Len(AllSheets))}
    \cup {File(TRUE, S_xlsx, Workbook(AllSheets, g)) :
            g \in SeqsUpTo(ConditionSheetRows, MaxSheetRows)}
    \cup {File(e, sfx, Workbook(AllSheets, ConditionsGrid)) :
            e \in BOOLEAN, sfx \in {<<".", "X", "L", "S">>, <<".", "c", "s", "v">>}}
    \cup {File(TRUE, S_xlsx, WorkbookOf(AllSheets, g, ConditionsGrid, ReferenceGrid)) :
            g \in SeqsUpTo(TierSheetRows, MaxSheetRows)}
    \cup {File(TRUE, S_xlsx, WorkbookOf(names, TierGrid, ConditionsGrid, g)) :
            names \in {SheetsWithReferences, required_sheets \o <<T_Ref2, T_Ref>>},
            g \in SeqsUpTo(ReferenceSheetRows, MaxSheetRows)}

\* annotations the server may hold
MaxAnnotations == 3

\* the objects named in the calls: the Screen exists, the Plate does not
ScreenRef == <<S_Screen, 1>>
PlateRef == <<S_Plate, 2>>
ObjectArgs == {ScreenRef, PlateRef}

\* namespaces given to create_map_annotation
NamespaceArgs == {<<"n", "/", "a">>, <<"m">>}

\* namespace prefixes given to delete_annotations_from_object
PrefixArgs == {None, <<"n">>, <<"m">>}

\* mappings given to create_map_annotation
KeyValueArgs == {{}, Dict1(T_Key, T_Value), Dict1(T_Key, None)}

\* a server with the Screen and no annotation
EmptyServer == [objects |-> {ScreenRef}, annotations |-> {}, links |-> {}, next_id |-> 1]

\* flat fields for the grouping: known names, names that match a pattern and a
\* name that no group has
T_FirstName == <<"F", "i", "r", "s", "t", " ", "N", "a", "m", "e">>
T_ProjectID == <<"P", "r", "o", "j", "e", "c", "t", " ", "I", "D">>
T_OrcidInvestigator == <<"O", "R", "C", "I", "D", " ", "i", "n", "v", "e", "s", "t", "i", "g", "a", "t", "o", "r">>
T_Collaborator1 == <<"O", "R", "C", "I", "D", " ", " ", "D", "a", "t", "a", " ", "C", "o", "l", "l", "a", "b", "o", "r", "a", "t", "o", "r", "_", "1">>
T_UnknownField == <<"U", "n", "k", "n", "o", "w", "n", " ", "F", "i", "e", "l", "d", " ", "1">>
T_PlateType == <<"P", "l", "a", "t", "e", " ", "t", "y", "p", "e">>
T_John == <<"J", "o", "h", "n">>
T_EuTOX == <<"E", "u", "T", "O", "X">>

MaxFields == 3
FieldNames == {T_FirstName, T_ProjectID, T_OrcidInvestigator, T_Collaborator1, T_UnknownField, T_PlateType}
FieldValues == {T_John, T_EuTOX}
FieldsOf(f) == {<<k, f[k]>> : k \in DOMAIN f}
FlatFieldDicts ==
    UNION {{FieldsOf(f) : f \in [ks -> FieldValues]} :
           ks \in {s \in SUBSET FieldNames : Cardinality(s) <= MaxFields}}

\* servers for the download: a Plate, or a Screen with two Plates; wells at the
\* corners of the largest plate and at row 1, column 5; wells with no
\* annotation, with conditions, with an annotation of another namespace
MaxWells == 2
S_MIHCSME == <<"M", "I", "H", "C", "S", "M", "E">>
T_OtherNs == <<"o">>
T_ScreenName == <<"s">>
ConditionsAnnotation ==
    [ns |-> ConditionsNamespace(S_MIHCSME), value |-> <<<<T_Compound, T_DMSO>>>>]
SecondAnnotation ==
    [ns |-> ConditionsNamespace(S_MIHCSME), value |-> <<<<T_Key, T_Value>>>>]
OtherAnnotation == [ns |-> T_OtherNs, value |-> <<<<T_Key, T_Value>>>>]
WellAnnotations ==
    {<<>>, <<ConditionsAnnotation>>, <<OtherAnnotation>>,
     <<OtherAnnotation, ConditionsAnnotation>>, <<ConditionsAnnotation, SecondAnnotation>>}
WellPositions == {<<0, 0>>, <<1, 5>>, <<15, 47>>}
RemoteWells ==
    {[row |-> p[1], column |-> p[2], annotations |-> a] :
        p \in WellPositions, a \in WellAnnotations}
TargetAnnotations ==
    <<[ns |-> S_MIHCSME \o <<"/">> \o SHEET_INVESTIGATION \o <<"/">> \o G_DataOwner,
       value |-> <<<<T_FirstName, T_John>>, <<T_UnknownField, T_EuTOX>>>>],
      [ns |-> T_OtherNs \o <<"/">> \o SHEET_STUDY, value |-> <<<<T_Key, T_Value>>>>]>>
RemotePlate(id, name, annotations, wells) ==
    [type |-> S_Plate, id |-> id, name |-> name, annotations |-> annotations,
     children |-> wells]
RemoteScreen(plates) ==
    [type |-> S_Screen, id |-> 1, name |-> T_ScreenName,
     annotations |-> TargetAnnotations, children |-> plates]
SecondPlate ==
    RemotePlate(3, T_P2, <<>>,
                <<[row |-> 1, column |-> 5, annotations |-> <<ConditionsAnnotation>>]>>)
Remotes ==
    {[objects |-> {RemotePlate(2, T_PlateA, a, ws)}] :
        a \in {<<>>, TargetAnnotations}, ws \in SeqsUpTo(RemoteWells, MaxWells)}
    \cup {[objects |-> {RemoteScreen(<<RemotePlate(2, T_PlateA, <<>>, ws), SecondPlate>>)}] :
             ws \in SeqsUpTo(RemoteWells, MaxWells)}
TargetArgs == {<<S_Screen, 1>>, <<S_Plate, 2>>}

-----------------------------------------------------------------------------
(* The calls *)

NoCall == [op |-> "none"]

Init ==
    /\ call = NoCall
    /\ pc = "start"
    /\ condition = NoObject
    /\ again = NoObject
    /\ metadata = NoObject
    /\ omero_dict = NoDict
    /\ restored = NoObject
    /\ raised = NoError
    /\ xls = "unopened"
    /\ conn = EmptyServer
    /\ returned = NoObject

\* AssayCondition(plate=..., well=..., conditions=...), called directly
NewAssayCondition ==
    /\ pc = "start"
    /\ \E well \in WellStrings :
       \E r \in {AssayCondition(T_P1, well, Dict1(T_Compound, T_DMSO))} :
          /\ call' = [op |-> "AssayCondition", well |-> well]
          /\ condition' = IF r.ok THEN r.value ELSE NoObject
          /\ raised' = r.error
          /\ pc' = IF r.ok THEN "constructed" ELSE "failed"
    /\ UNCHANGED <<conn, returned, again, metadata, omero_dict, restored, xls>>

\* AssayCondition(...) called with the fields of an instance
CopyAssayCondition ==
    /\ pc = "constructed"
    /\ \E r \in {AssayCondition(condition.plate, condition.well, condition.conditions)} :
          /\ again' = IF r.ok THEN r.value ELSE NoObject
          /\ raised' = r.error
          /\ pc' = IF r.ok THEN "copied" ELSE "failed"
    /\ UNCHANGED <<conn, returned, call, condition, metadata, omero_dict, restored, xls>>

RECURSIVE BuildConditions(_, _)

BuildAppend(args, acc, r) ==
    IF ~r.ok THEN r ELSE BuildConditions(Tail(args), Append(acc, r.value))

\* the list of AssayCondition(...) of a directly built MIHCSMEMetadata
BuildConditions(args, acc) ==
    IF args = <<>> THEN Returned(acc)
    ELSE BuildAppend(args, acc,
            AssayCondition(Head(args).plate, Head(args).well, Head(args).conditions))

\* MIHCSMEMetadata(investigation_information=..., assay_conditions=[...],
\* reference_sheets=[ReferenceSheet(name=..., data=...)]), called directly
NewMetadata ==
    /\ pc = "start"
    /\ \E groups \in GroupChoices, args \in SeqsUpTo(ConditionArgs, MaxConds),
          refs \in SeqsUpTo(ReferenceArgs, 1) :
       \E r \in {BuildConditions(args, <<>>)} :
          /\ call' = [op |-> "MIHCSMEMetadata", groups |-> groups, conditions |-> args,
                      references |-> refs]
          /\ metadata' = IF r.ok
                         THEN MIHCSMEMetadata(Tier(groups), NoObject, NoObject, r.value,
                                 [i \in 1..Len(refs) |->
                                     ReferenceSheet(refs[i].name, refs[i].data)])
                         ELSE NoObject
          /\ raised' = r.error
          /\ pc' = IF r.ok THEN "built" ELSE "failed"
    /\ UNCHANGED <<conn, returned, condition, again, omero_dict, restored, xls>>

\* MIHCSMEMetadata.from_omero_dict(data) on a dict of the grammar
FromOmeroDict ==
    /\ pc = "start"
    /\ \E data \in FlatDicts :
       \E r \in {from_omero_dict(data)} :
          /\ call' = [op |-> "from_omero_dict", data |-> data,
                      data_after |-> DataAfter_from_omero_dict(data)]
          /\ metadata' = IF r.ok THEN r.value ELSE NoObject
          /\ raised' = r.error
          /\ pc' = IF r.ok THEN "built" ELSE "failed"
    /\ UNCHANGED <<conn, returned, condition, again, omero_dict, restored, xls>>

\* parse_excel_to_model(excel_path)
ParseExcel ==
    /\ pc = "start"
    /\ \E file \in Files :
       \E p \in {parse_excel_to_model(file)} :
          /\ call' = [op |-> "parse_excel_to_model", file |-> file]
          /\ metadata' = IF p.result.ok THEN p.result.value ELSE NoObject
          /\ raised' = p.result.error
          /\ xls' = p.xls
          /\ pc' = IF p.result.ok THEN "built" ELSE "failed"
    /\ UNCHANGED <<conn, returned, condition, again, omero_dict, restored>>

\* metadata.to_omero_dict()
ToOmeroDict ==
    /\ pc = "built"
    /\ omero_dict' = to_omero_dict(metadata)
    /\ metadata' = SelfAfter_to_omero_dict(metadata)
    /\ pc' = "converted"
    /\ UNCHANGED <<conn, returned, call, condition, again, restored, raised, xls>>

\* MIHCSMEMetadata.from_omero_dict(omero_dict) on the result of to_omero_dict
RestoreFromOmeroDict ==
    /\ pc = "converted"
    /\ \E r \in {from_omero_dict(omero_dict)} :
          /\ restored' = IF r.ok THEN r.value ELSE NoObject
          /\ raised' = r.error
          /\ pc' = IF r.ok THEN "restored" ELSE "failed"
    /\ omero_dict' = DataAfter_from_omero_dict(omero_dict)
    /\ UNCHANGED <<conn, returned, call, condition, again, metadata, xls>>

\* create_map_annotation(conn, object_type, object_id, key_value_pairs, namespace)
CreateMapAnnotation ==
    /\ pc \in {"start", "omero"}
    /\ conn.next_id <= MaxAnnotations
    /\ \E obj \in ObjectArgs, kv \in KeyValueArgs, ns \in NamespaceArgs :
       \E o \in {create_map_annotation(conn, obj[1], obj[2], kv, ns)} :
          /\ call' = [op |-> "create_map_annotation", object |-> obj,
                      key_value_pairs |-> kv, namespace |-> ns, conn |-> conn]
          /\ conn' = o.conn
          /\ returned' = IF o.result.ok THEN o.result.value ELSE NoObject
          /\ raised' = o.result.error
    /\ pc' = "omero"
    /\ UNCHANGED <<condition, again, metadata, omero_dict, restored, xls>>

\* the call repeats the call before it
Repeats(op, obj, ns) ==
    call.op = op /\ call.object = obj /\ call.namespace = ns

\* delete_annotations_from_object(conn, object_type, object_id, namespace)
DeleteAnnotations ==
    /\ pc \in {"start", "omero"}
    /\ \E obj \in ObjectArgs, ns \in PrefixArgs :
       \E o \in {delete_annotations_from_object(conn, obj[1], obj[2], ns)} :
          /\ call' = [op |-> "delete_annotations_from_object", object |-> obj,
                      namespace |-> ns, conn |-> conn, deleted |-> o.deleted,
                      repeated |-> Repeats("delete_annotations_from_object", obj, ns)]
          /\ conn' = o.conn
          /\ returned' = o.result.value
          /\ raised' = o.result.error
    /\ pc' = "omero"
    /\ UNCHANGED <<condition, again, metadata, omero_dict, restored, xls>>

\* Another client of the server links an annotation without namespace (a tag,
\* a comment) to an object
OtherClientAnnotates ==
    /\ pc \in {"start", "omero"}
    /\ conn.next_id <= MaxAnnotations
    /\ \E obj \in conn.objects :
          conn' = LinkAnnotation(Save(conn, None, {}), obj[1], obj[2], conn.next_id)
    /\ call' = [op |-> "other_client"]
    /\ returned' = NoObject
    /\ raised' = NoError
    /\ pc' = "omero"
    /\ UNCHANGED <<condition, again, metadata, omero_dict, restored, xls>>

\* _organize_into_groups(flat_dict), called with a flat dict of fields
OrganizeIntoGroups ==
    /\ pc = "start"
    /\ \E flat_dict \in FlatFieldDicts :
          /\ call' = [op |-> "_organize_into_groups", flat_dict |-> flat_dict]
          /\ returned' = organize_into_groups(flat_dict)
    /\ pc' = "grouped"
    /\ UNCHANGED <<condition, again, metadata, omero_dict, restored, raised, xls, conn>>

\* the outcome of a download
DownloadOutcome(r) ==
    /\ metadata' = (IF r.ok THEN r.value ELSE NoObject)
    /\ raised' = r.error
    /\ pc' = (IF r.ok THEN "downloaded" ELSE "failed")

\* download_metadata_from_omero(conn, target_type, target_id, namespace="MIHCSME")
DownloadMetadata ==
    /\ pc = "start"
    /\ \E remote \in Remotes, target \in TargetArgs :
          /\ call' = [op |-> "download_metadata_from_omero", conn |-> remote,
                      target_type |-> target[1], target_id |-> target[2],
                      namespace |-> S_MIHCSME]
          /\ \E r \in {download_metadata_from_omero(remote, target[1], target[2], S_MIHCSME)} :
                DownloadOutcome(r)
    /\ UNCHANGED <<condition, again, omero_dict, restored, xls, conn, returned>>

Next ==
    \/ DownloadMetadata
    \/ OrganizeIntoGroups
    \/ CreateMapAnnotation
    \/ DeleteAnnotations
    \/ OtherClientAnnotates
    \/ NewAssayCondition
    \/ CopyAssayCondition
    \/ NewMetadata
    \/ FromOmeroDict
    \/ ParseExcel
    \/ ToOmeroDict
    \/ RestoreFromOmeroDict

Spec == Init /\ [][Next]_vars

-----------------------------------------------------------------------------
(* Properties *)

RowLetters == {"A", "B", "C", "D", "E", "F", "G", "H", "I", "J", "K", "L", "M", "N", "O", "P"}

DigitChars == <<"0", "1", "2", "3", "4", "5", "6", "7", "8", "9">>

\* w is a canonical well label: a row letter A-P and two digits for a column 01..48
IsCanonicalWell(w) ==
    /\ Len(w) = 3
    /\ w[1] \in RowLetters
    /\ \E tens, units \in 0..9 :
          /\ w[2] = DigitChars[tens + 1]
          /\ w[3] = DigitChars[units + 1]
          /\ 10 * tens + units >= 1
          /\ 10 * tens + units <= 48

\* the canonical label of row letter r and column n, 1 <= n <= 48
CanonicalWell(r, n) == <<r, DigitChars[(n \div 10) + 1], DigitChars[(n % 10) + 1]>>

\* the AssayCondition instances that exist in a state
LiveConditions ==
    (IF condition = NoObject THEN {} ELSE {condition})
    \cup (IF again = NoObject THEN {} ELSE {again})
    \cup (IF metadata = NoObject THEN {}
          ELSE {metadata.assay_conditions[i] : i \in 1..Len(metadata.assay_conditions)})
    \cup (IF restored = NoObject THEN {}
          ELSE {restored.assay_conditions[i] : i \in 1..Len(restored.assay_conditions)})

\* the well string given to a direct AssayCondition(...) call, trimmed and uppercased
TrimmedWell == Upper(Strip(call.well))

\* that string has a row letter in A-P and a remainder that parses as an integer
WellHasRowAndNumber ==
    /\ Len(TrimmedWell) >= 2
    /\ TrimmedWell[1] \in RowLetters
    /\ IntParses(Tail(TrimmedWell))

WellColumn == IntValue(Tail(TrimmedWell))

DirectCall == call.op = "AssayCondition"

\* C1: every AssayCondition instance that exists has a well made of one
\* letter A-P and two digits denoting a column 01..48, and a direct
\* construction from a string that cannot be canonicalized raises and leaves
\* no instance.
C1_WellInvariant ==
    /\ \A c \in LiveConditions : IsCanonicalWell(c.well)
    /\ (DirectCall /\ ~(WellHasRowAndNumber /\ WellColumn \in 1..48))
          => (condition = NoObject /\ raised.type = "ValidationError")

\* C1 witness: an instance built from a string that was not canonical, and a
\* parsed Metadata holding an instance
C1_Witness_Direct == DirectCall /\ condition # NoObject /\ condition.well # call.well

\* C2: for a Metadata m built by from_omero_dict from a dict of the grammar,
\* from_omero_dict(to_omero_dict(m)) succeeds and has the tiers, groups,
\* fields and values of m and the same WellConditions in the same order.
C2_RoundTrip ==
    (call.op = "from_omero_dict" /\ omero_dict # NoDict /\ pc \in {"restored", "failed"})
        => /\ pc = "restored"
           /\ restored.investigation_information = metadata.investigation_information
           /\ restored.study_information = metadata.study_information
           /\ restored.assay_information = metadata.assay_information
           /\ Len(restored.assay_conditions) = Len(metadata.assay_conditions)
           /\ \A i \in 1..Len(metadata.assay_conditions) :
                 /\ restored.assay_conditions[i].plate = metadata.assay_conditions[i].plate
                 /\ restored.assay_conditions[i].well = metadata.assay_conditions[i].well
                 /\ restored.assay_conditions[i].conditions
                        = metadata.assay_conditions[i].conditions

\* C2 witness: a round trip of a Metadata with a tier that has a field, and
\* two conditions, one with a condition field and a well that was normalized
C2_Witness ==
    /\ call.op = "from_omero_dict"
    /\ pc = "restored"
    /\ restored.investigation_information # NoObject
    /\ restored.investigation_information.groups # {}
    /\ Len(restored.assay_conditions) = 2
    /\ restored.assay_conditions[1].conditions # {}
    /\ restored.assay_conditions[1].well = <<"A", "0", "1">>
    /\ restored.assay_conditions[1] # restored.assay_conditions[2]
    /\ \E i \in 1..Len(call.data) :
          /\ ItemKey(call.data[i]) = SHEET_CONDITIONS
          /\ DictGet(ItemValue(call.data[i])[1], S_Well) = <<"a", "1">>

\* C3: when the trimmed, uppercased input has a row letter in A-P and a
\* remainder that parses as an integer n, the well is the row letter followed
\* by n on two digits if 1 <= n <= 48, and there is no instance otherwise (the
\* column is not clamped).
C3_NormalizedWell ==
    (DirectCall /\ WellHasRowAndNumber)
        => IF WellColumn \in 1..48
           THEN condition # NoObject
                /\ condition.well = CanonicalWell(TrimmedWell[1], WellColumn)
           ELSE condition = NoObject

\* C3 witness: a column padded to two digits, and a column above 48 refused
C3_Witness_Padded ==
    /\ DirectCall /\ call.well = <<"a", "1">>
    /\ condition # NoObject /\ condition.well = <<"A", "0", "1">>

\* C4 (as claimed): a row letter in A-P with a remainder that parses as an
\* integer outside 1..48 fails with the column error.
C4_ColumnError ==
    (DirectCall /\ WellHasRowAndNumber /\ WellColumn \notin 1..48)
        => (condition = NoObject /\ raised.msg = "Invalid column number")

\* C5: a trimmed, uppercased input of length >= 2 whose first character is
\* outside A-P fails with the row error, whatever the remainder is.
C5_RowError ==
    (DirectCall /\ Len(TrimmedWell) >= 2 /\ TrimmedWell[1] \notin RowLetters)
        => (condition = NoObject /\ raised.type = "ValidationError"
            /\ raised.msg = "Invalid row letter")

\* C5 witness: the row error for a remainder that is not a number
C5_Witness ==
    /\ DirectCall /\ call.well = <<"q", "-", "Q">>
    /\ raised.msg = "Invalid row letter"

\* C6: an input shorter than 2 characters once trimmed, or with a row letter
\* in A-P and a remainder that does not parse as an integer, fails with the
\* format error.
C6_FormatError ==
    (DirectCall /\ (Len(Strip(call.well)) < 2
                    \/ (TrimmedWell[1] \in RowLetters /\ ~IntParses(Tail(TrimmedWell)))))
        => (condition = NoObject /\ raised.type = "ValidationError"
            /\ raised.msg = "Invalid well format")

\* C6 witness: the format error for a remainder that is not a number
C6_Witness ==
    /\ DirectCall /\ call.well = <<"A", "Q", "1">>
    /\ raised.msg = "Invalid well format"

\* s is one letter a-p or A-P followed by one or two digits of value 1..48
MatchesWellPattern(s) ==
    /\ Len(s) \in {2, 3}
    /\ UpperChar(s[1]) \in RowLetters
    /\ \A i \in 2..Len(s) : \E d \in 1..10 : s[i] = DigitChars[d]
    /\ IntValue(Tail(s)) \in 1..48

\* C7: for a string of one letter a-p or A-P and one or two digits of value
\* 1..48, normalizing succeeds, normalizing the result gives the result again,
\* and 'a1' gives 'A01'.
C7_Idempotent ==
    (DirectCall /\ MatchesWellPattern(call.well))
        => /\ condition # NoObject
           /\ pc # "failed"
           /\ (pc = "copied" => again.well = condition.well)
           /\ (call.well = <<"a", "1">> => condition.well = <<"A", "0", "1">>)

\* C7 witness: the second normalization of a string that the first one changed
C7_Witness ==
    /\ DirectCall /\ pc = "copied"
    /\ call.well = <<"a", "4", "8">>
    /\ again.well = <<"A", "4", "8">>

\* the value of key k in the i-th entry of omero_dict["AssayConditions"]
ConditionEntry(i) == ItemValue(GetItem(omero_dict, SHEET_CONDITIONS))[i]

\* C8 (as claimed): for every Metadata with at least one condition,
\* to_omero_dict gives an 'AssayConditions' list of the same length and order
\* whose i-th entry has the plate under 'Plate', the well under 'Well' and
\* every key and value of the conditions.
C8_ConditionsList ==
    (omero_dict # NoDict /\ metadata.assay_conditions # <<>>)
        => /\ HasKey(omero_dict, SHEET_CONDITIONS)
           /\ ItemKind(GetItem(omero_dict, SHEET_CONDITIONS)) = "list"
           /\ Len(ItemValue(GetItem(omero_dict, SHEET_CONDITIONS)))
                 = Len(metadata.assay_conditions)
           /\ \A i \in 1..Len(metadata.assay_conditions) :
                 /\ DictGet(ConditionEntry(i), S_Plate) = metadata.assay_conditions[i].plate
                 /\ DictGet(ConditionEntry(i), S_Well) = metadata.assay_conditions[i].well
                 /\ metadata.assay_conditions[i].conditions \subseteq ConditionEntry(i)

ParseCall == call.op = "parse_excel_to_model"

\* the file of the call can be opened as a workbook
FileOpens == call.file.exists /\ Lower(call.file.suffix) \in EXCEL_SUFFIXES

RequiredSheetNames == {SHEET_INVESTIGATION, SHEET_STUDY, SHEET_ASSAY, SHEET_CONDITIONS}

AvailableSheetNames ==
    {call.file.workbook.sheet_names[i] : i \in 1..Len(call.file.workbook.sheet_names)}

\* C9: parsing a workbook that lacks required sheets raises one ValueError
\* that names every missing sheet, each once, and returns no Metadata.
C9_MissingSheets ==
    (ParseCall /\ FileOpens /\ RequiredSheetNames \ AvailableSheetNames # {})
        => /\ metadata = NoObject
           /\ raised.type = "ValueError"
           /\ raised.msg = "Missing required sheets"
           /\ {raised.names[i] : i \in 1..Len(raised.names)}
                 = RequiredSheetNames \ AvailableSheetNames
           /\ Len(raised.names) = Cardinality(RequiredSheetNames \ AvailableSheetNames)

\* C9 witness: an error that names three missing sheets
C9_Witness ==
    /\ ParseCall /\ FileOpens
    /\ Cardinality(RequiredSheetNames \ AvailableSheetNames) = 3
    /\ Len(raised.names) = 3

\* the rows of the conditions sheet of the call
ConditionsSheet == call.file.workbook.sheets[SHEET_CONDITIONS]

\* the rows of a sheet whose first cell does not begin with '#'
RECURSIVE WithoutComments(_)
WithoutComments(grid) ==
    IF grid = <<>> THEN <<>>
    ELSE IF Head(grid)[1] # NaN /\ StartsWith(Head(grid)[1], S_Hash)
    THEN WithoutComments(Tail(grid))
    ELSE <<Head(grid)>> \o WithoutComments(Tail(grid))

\* the WellConditions the claim gives for the rows under a header row
RECURSIVE ClaimedConditions(_, _)
ClaimedConditions(rows, header) ==
    IF rows = <<>> THEN <<>>
    ELSE LET row == Head(rows)
             plate == row[CHOOSE j \in 1..Len(header) : header[j] = S_Plate]
             well == row[CHOOSE j \in 1..Len(header) : header[j] = S_Well]
         IN IF plate = NaN \/ well = NaN THEN ClaimedConditions(Tail(rows), header)
            ELSE <<[plate |-> plate,
                    well |-> normalize_well_name(well).value,
                    conditions |-> {<<header[j], row[j]>> :
                                      j \in {i \in 1..Len(header) :
                                               /\ header[i] \notin {NaN, S_Plate, S_Well}
                                               /\ row[i] # NaN}}]>>
                 \o ClaimedConditions(Tail(rows), header)

\* the claim covers the sheet: a row is left once the comment rows are
\* stripped, the first one has a Plate and a Well column, and every well under
\* it that comes with a plate can be normalized
ClaimCoversSheet(grid) ==
    /\ WithoutComments(grid) # <<>>
    /\ LET header == Head(WithoutComments(grid))
           rows == Tail(WithoutComments(grid))
       IN /\ \E j \in 1..Len(header) : header[j] = S_Plate
          /\ \E j \in 1..Len(header) : header[j] = S_Well
          /\ \A i \in 1..Len(rows) :
                LET plate == rows[i][CHOOSE j \in 1..Len(header) : header[j] = S_Plate]
                    well == rows[i][CHOOSE j \in 1..Len(header) : header[j] = S_Well]
                IN (plate # NaN /\ well # NaN) => normalize_well_name(well).ok

\* the sheet of the example: header Plate,Well,Compound and the data row
\* PlateA,a1,DMSO
ExampleSheet == <<<<S_Plate, S_Well, T_Compound>>, <<T_PlateA, <<"a", "1">>, T_DMSO>>>>

ExampleCondition ==
    [plate |-> T_PlateA, well |-> <<"A", "0", "1">>,
     conditions |-> {<<T_Compound, T_DMSO>>}]

\* C10 (as claimed): the first row left once the comment rows are stripped is
\* the header, each later row with a Plate and a Well gives one WellCondition
\* with the normalized well and the other non-empty columns, the other rows
\* are skipped; the sheet with the rows Plate,Well,Compound and PlateA,a1,DMSO
\* yields exactly the one WellCondition {PlateA, A01, {Compound: DMSO}}.
C10_ConditionsSheet ==
    (ParseCall /\ FileOpens /\ RequiredSheetNames \subseteq AvailableSheetNames
        /\ ClaimCoversSheet(ConditionsSheet))
        => /\ metadata # NoObject
           /\ metadata.assay_conditions
                 = ClaimedConditions(Tail(WithoutComments(ConditionsSheet)),
                                     Head(WithoutComments(ConditionsSheet)))
           /\ (ConditionsSheet = ExampleSheet
                 => metadata.assay_conditions = <<ExampleCondition>>)

\* the sheet begins with a comment row, so that the row read_excel takes as
\* the column labels is a row the sheet's reader ignores anyway
BeginsWithComment(grid) ==
    grid # <<>> /\ Head(grid)[1] # NaN /\ StartsWith(Head(grid)[1], S_Hash)

\* the header row of a sheet and the rows under it, comment rows stripped
SheetHeader(grid) == Head(WithoutComments(grid))
SheetDataRows(grid) == Tail(WithoutComments(grid))

\* the plate and the well of a row under a header with both columns
PlateOf(row, header) == row[CHOOSE j \in 1..Len(header) : header[j] = S_Plate]
WellOf(row, header) == row[CHOOSE j \in 1..Len(header) : header[j] = S_Well]

\* the header has a Plate and a Well column
HasPlateAndWell(header) ==
    /\ \E j \in 1..Len(header) : header[j] = S_Plate
    /\ \E j \in 1..Len(header) : header[j] = S_Well

\* the row has a plate and a well, and the well cannot be canonicalized
IsBadRow(row, header) ==
    /\ PlateOf(row, header) # NaN
    /\ WellOf(row, header) # NaN
    /\ ~normalize_well_name(WellOf(row, header)).ok

\* the rows that are not bad rows, in order
RECURSIVE OtherRows(_, _)
OtherRows(rows, header) ==
    IF rows = <<>> THEN <<>>
    ELSE IF IsBadRow(Head(rows), header) THEN OtherRows(Tail(rows), header)
    ELSE <<Head(rows)>> \o OtherRows(Tail(rows), header)

\* the conditions sheet of the call has a header with Plate and Well, and a
\* row under it whose well cannot be canonicalized
SheetHasBadRow(grid) ==
    /\ BeginsWithComment(grid)
    /\ WithoutComments(grid) # <<>>
    /\ HasPlateAndWell(SheetHeader(grid))
    /\ \E i \in 1..Len(SheetDataRows(grid)) : IsBadRow(SheetDataRows(grid)[i], SheetHeader(grid))

\* C11 (as claimed): a conditions data row whose well cannot be canonicalized
\* is skipped and does not abort the parse: parse_excel_to_model returns a
\* Metadata that holds the WellConditions of the other rows.
C11_BadRowSkipped ==
    (ParseCall /\ FileOpens /\ RequiredSheetNames \subseteq AvailableSheetNames
        /\ SheetHasBadRow(ConditionsSheet))
        => /\ metadata # NoObject
           /\ metadata.assay_conditions
                 = ClaimedConditions(OtherRows(SheetDataRows(ConditionsSheet),
                                               SheetHeader(ConditionsSheet)),
                                     SheetHeader(ConditionsSheet))

\* the header row of the sheet, comment rows stripped, lacks a Plate or a Well
\* column; a sheet with no row left has neither
LacksPlateOrWell(grid) ==
    WithoutComments(grid) = <<>> \/ ~HasPlateAndWell(SheetHeader(grid))

\* C12 (as claimed): parsing a conditions sheet in which the column Plate or
\* the column Well is absent fails with a ValidationError (a ValueError), also
\* when no row is left once the comment rows are stripped, and no Metadata is
\* returned.  Stated for the sheets that have a row at least.
C12_MissingColumn ==
    (ParseCall /\ FileOpens /\ RequiredSheetNames \subseteq AvailableSheetNames
        /\ ConditionsSheet # <<>> /\ LacksPlateOrWell(ConditionsSheet))
        => /\ metadata = NoObject
           /\ pc = "failed"
           /\ raised.type \in {"ValueError", "ValidationError"}

\* the InvestigationInformation sheet of the call
InvestigationSheet == call.file.workbook.sheets[SHEET_INVESTIGATION]

\* the claim's rule: the row of a tier sheet is skipped
IsSkippedTierRow(row) ==
    \/ row[1] # NaN /\ StartsWith(row[1], S_Hash)
    \/ row[1] = NaN
    \/ row[1] = S_Annotation_groups
    \/ row[2] = NaN

\* the groups the claim gives for the rows of a tier sheet: each row that is
\* not skipped puts its key under its group, with None for a missing value
RECURSIVE ClaimedGroups(_, _)
ClaimedGroups(grid, groups) ==
    IF grid = <<>> THEN groups
    ELSE IF IsSkippedTierRow(Head(grid)) THEN ClaimedGroups(Tail(grid), groups)
    ELSE ClaimedGroups(Tail(grid),
            DictSet(groups, Head(grid)[1],
                    DictSet(GetOr(groups, Head(grid)[1], {}), Head(grid)[2],
                            IF Head(grid)[3] = NaN THEN None ELSE Head(grid)[3])))

\* C13 (as claimed): in a tier sheet a row is skipped exactly when its first
\* cell begins with '#', its group cell is empty or 'Annotation_groups', or its
\* key cell is empty; every other row of the sheet puts its key under the group
\* of its group cell, a missing value being recorded as None.  Stated of the
\* Metadata that a parse returns.
C13_TierSheet ==
    (ParseCall /\ FileOpens /\ RequiredSheetNames \subseteq AvailableSheetNames
        /\ metadata # NoObject)
        => /\ metadata.investigation_information # NoObject
           /\ metadata.investigation_information.groups
                 = ClaimedGroups(InvestigationSheet, {})

\* the workbook of the call
CallWorkbook == call.file.workbook

\* the names of the reference sheets of the workbook of the call
ReferenceSheetNames == {n \in AvailableSheetNames : StartsWith(n, REF_PREFIX)}

\* parsing the reference sheet n of the workbook of the call raises
ReferenceSheetRaises(n) == ~ReferenceFrame(ReadExcel(CallWorkbook.sheets[n])).ok

\* the workbook wb without its sheet n
WithoutSheet(wb, n) ==
    [sheet_names |-> SelectSeq(wb.sheet_names, LAMBDA x : x # n),
     sheets |-> [m \in (DOMAIN wb.sheets) \ {n} |-> wb.sheets[m]]]

\* the names of the reference sheets of a Metadata
NamesOfReferenceSheets(m) == {m.reference_sheets[i].name : i \in 1..Len(m.reference_sheets)}

\* C14: when the parsing of one reference sheet raises, the exception is
\* caught and the sheet gives an empty table: parse_excel_to_model ends as it
\* does on the workbook without that sheet, with the same tiers, conditions and
\* other reference sheets in the Metadata returned.
C14_ReferenceSheetFailure ==
    (ParseCall /\ FileOpens /\ RequiredSheetNames \subseteq AvailableSheetNames)
        => \A n \in ReferenceSheetNames :
              ReferenceSheetRaises(n)
                  => \E other \in {parse_workbook(WithoutSheet(CallWorkbook, n)).result} :
                        /\ other.ok => metadata = other.value
                        /\ ~other.ok => (metadata = NoObject /\ raised = other.error)

\* C14 witness: a Metadata returned for a workbook with a reference sheet
\* whose parsing raises after rows were read, and another reference sheet that
\* is in the Metadata
C14_Witness ==
    /\ ParseCall /\ FileOpens /\ pc = "built"
    /\ T_Ref \in ReferenceSheetNames
    /\ Len(CallWorkbook.sheets[T_Ref]) = 3
    /\ ReferenceSheetRaises(T_Ref)
    /\ NamesOfReferenceSheets(metadata) = {T_Ref2}
    /\ metadata.investigation_information # NoObject
    /\ metadata.assay_conditions # <<>>

\* the rows of a sheet that have a non-empty cell
RECURSIVE WithoutEmptyRows(_)
WithoutEmptyRows(grid) ==
    IF grid = <<>> THEN <<>>
    ELSE IF \A j \in 1..Len(Head(grid)) : Head(grid)[j] = NaN
    THEN WithoutEmptyRows(Tail(grid))
    ELSE <<Head(grid)>> \o WithoutEmptyRows(Tail(grid))

\* the entries the claim gives for the rows under the header of a reference
\* sheet: first column as key, second as value, None for an empty value
RECURSIVE ClaimedEntries(_, _)
ClaimedEntries(rows, table) ==
    IF rows = <<>> THEN table
    ELSE IF Head(rows)[1] = NaN THEN ClaimedEntries(Tail(rows), table)
    ELSE ClaimedEntries(Tail(rows),
            DictSet(table, Head(rows)[1],
                    IF Head(rows)[2] = NaN THEN None ELSE Head(rows)[2]))

\* the table the claim gives for a reference sheet: the first row with a
\* non-empty cell, comment rows aside, is the header
ClaimedTable(grid) ==
    IF WithoutEmptyRows(WithoutComments(grid)) = <<>> THEN {}
    ELSE ClaimedEntries(Tail(WithoutEmptyRows(WithoutComments(grid))), {})

\* the table of the reference sheet n in a Metadata, {} when it has none
TableOf(m, n) ==
    IF n \in NamesOfReferenceSheets(m)
    THEN m.reference_sheets[CHOOSE i \in 1..Len(m.reference_sheets) :
                                m.reference_sheets[i].name = n].data
    ELSE {}

\* C15 (as claimed): in a reference sheet the first row with a non-empty cell
\* is the header and every later row with a non-empty first cell gives one
\* entry (first column the key, second the value, None for an empty value),
\* also when comment rows or empty rows come before the header; an empty sheet
\* gives an empty table and no error.
C15_ReferenceSheet ==
    (ParseCall /\ FileOpens /\ RequiredSheetNames \subseteq AvailableSheetNames
        /\ T_Ref \in ReferenceSheetNames /\ metadata # NoObject)
        => TableOf(metadata, T_Ref) = ClaimedTable(CallWorkbook.sheets[T_Ref])

\* the Metadata objects held by the state
LiveMetadata == {metadata, restored} \ {NoObject}

\* C16 (as claimed): every ReferenceSheet of a Metadata has a name that starts
\* with '_', no other name can be given to one, and so a Metadata that goes
\* through to_omero_dict and from_omero_dict comes back with its reference
\* sheets, none colliding with a tier key or lost.
C16_ReferenceNames ==
    /\ \A m \in LiveMetadata :
          \A i \in 1..Len(m.reference_sheets) :
             StartsWith(m.reference_sheets[i].name, REF_PREFIX)
    /\ pc = "restored" => restored.reference_sheets = metadata.reference_sheets

DeleteCall == call.op = "delete_annotations_from_object"

\* the annotations the object of the call had when the call was made
AnnotationsBefore ==
    {ann \in call.conn.annotations : <<call.object, ann.id>> \in call.conn.links}

\* those of them whose namespace starts with the prefix of the call
InNamespace ==
    {ann \in AnnotationsBefore : ann.ns # None /\ StartsWith(ann.ns, call.namespace)}

\* C17 (as claimed): a call of delete_annotations_from_object with a namespace
\* prefix deletes only the annotations of the object whose namespace starts
\* with the prefix; the annotations with another namespace or with none stay,
\* and the count returned is the number of annotations deleted.
C17_DeletesOnlyNamespace ==
    (DeleteCall /\ call.namespace # None /\ call.object \in call.conn.objects)
        => /\ call.conn.annotations \ conn.annotations \subseteq InNamespace
           /\ AnnotationsBefore \ InNamespace \subseteq conn.annotations
           /\ returned = PyInt(Cardinality(call.conn.annotations \ conn.annotations))

\* the annotations of the object that the call is to delete: those in the
\* namespace of the call, all of them when the call gives no namespace
Matching == IF call.namespace = None THEN AnnotationsBefore ELSE InNamespace

\* C18 (as claimed): on an object with no matching annotation the call returns
\* 0, raises nothing and asks the server for no deletion; and the same call
\* made again after a call returns 0 and leaves the annotations as they are.
C18_DeleteIdempotent ==
    /\ (DeleteCall /\ Matching = {})
          => /\ returned = PyInt(0)
             /\ raised = NoError
             /\ call.deleted = {}
             /\ conn = call.conn
    /\ (DeleteCall /\ call.repeated)
          => /\ returned = PyInt(0)
             /\ conn = call.conn

CreateCall == call.op = "create_map_annotation"

\* C19 (as claimed): when the object cannot be located, create_map_annotation
\* fails with a ValueError that names the object type and id, whatever the
\* mapping passed, and no annotation is created, saved or linked.
C19_ObjectNotFound ==
    (CreateCall /\ call.object \notin call.conn.objects)
        => /\ raised.type = "ValueError"
           /\ raised.names = <<call.object[1], NatToStr(call.object[2])>>
           /\ conn = call.conn

\* C19 (amended): when the object cannot be located and the mapping passed is
\* not empty, create_map_annotation fails with a ValueError that names the
\* object type and id, and no annotation is created, saved or linked.
C19_ObjectNotFound_NonEmpty ==
    (CreateCall /\ call.object \notin call.conn.objects /\ call.key_value_pairs # {})
        => /\ raised.type = "ValueError"
           /\ raised.names = <<call.object[1], NatToStr(call.object[2])>>
           /\ returned = NoObject
           /\ conn = call.conn

\* C19 witness: the error for the missing Plate 2, on a server that holds
\* annotations
C19_Witness ==
    /\ CreateCall /\ call.object = PlateRef /\ call.key_value_pairs # {}
    /\ raised.type = "ValueError" /\ raised.names = <<S_Plate, <<"2">>>>
    /\ conn.annotations # {}

\* the text of a value: the str itself, 'None' for None
Text(v) == IF v = None THEN <<"N", "o", "n", "e">> ELSE v

\* the annotations saved by the call
SavedByCall == conn.annotations \ call.conn.annotations

\* C20: create_map_annotation with an empty mapping returns None and creates,
\* saves and links no annotation; with a non-empty mapping and an object that
\* exists it saves one annotation, linked to the object, that carries the
\* namespace given and exactly one pair (str(key), str(value)) per entry.
C20_EmptyNotWritten ==
    CreateCall
        => /\ call.key_value_pairs = {}
              => (returned = ReturnedNone /\ raised = NoError /\ conn = call.conn)
           /\ (call.key_value_pairs # {} /\ call.object \in call.conn.objects)
              => /\ Cardinality(SavedByCall) = 1
                 /\ \A ann \in SavedByCall :
                       /\ returned = PyInt(ann.id)
                       /\ ann.ns = call.namespace
                       /\ ann.value = {<<p[1], Text(p[2])>> : p \in call.key_value_pairs}
                       /\ Cardinality(ann.value) = Cardinality(call.key_value_pairs)
                       /\ conn.links \ call.conn.links = {<<call.object, ann.id>>}

\* C20 witness: an empty mapping is passed for the Screen, which holds an
\* annotation written by an earlier call with the pair (k, 'None')
C20_Witness ==
    /\ CreateCall /\ call.key_value_pairs = {} /\ call.object = ScreenRef
    /\ returned = ReturnedNone
    /\ \E ann \in conn.annotations :
          /\ ann.value = {<<T_Key, <<"N", "o", "n", "e">>>>}
          /\ <<ScreenRef, ann.id>> \in conn.links

-----------------------------------------------------------------------------
(* C21: the grouping is total.  Whatever flat dict of fields is given to     *)
(* _organize_into_groups, every field is in exactly one group of the result, *)
(* with the value it had; no group holds a field that was not given; a field *)
(* whose name no group of the taxonomy has is in the group 'Metadata'; and   *)
(* {'First Name', 'Project ID'} gives the group DataOwner with 'First Name'  *)
(* and the group InvestigationInfo with 'Project ID'.                        *)

GroupingCall == pc = "grouped" /\ call.op = "_organize_into_groups"

\* the groups of a grouped dict that hold an item with this key
GroupsHolding(grouped, key) == {g \in grouped : \E it \in g[2] : it[1] = key}

\* no entry of the taxonomy names the field
UnknownField(key) == \A i \in 1..Len(FIELD_GROUPS) : ~InFieldGroup(FIELD_GROUPS[i], key)

C21_GroupingTotal ==
    GroupingCall =>
       /\ \A it \in call.flat_dict :
             /\ Cardinality(GroupsHolding(returned, it[1])) = 1
             /\ \A g \in GroupsHolding(returned, it[1]) : \A held \in g[2] : held[1] = it[1] => held = it
             /\ UnknownField(it[1]) => \A g \in GroupsHolding(returned, it[1]) : g[1] = G_Metadata
       /\ \A g \in returned : g[2] \subseteq call.flat_dict
       /\ \A g, h \in returned : g[1] = h[1] => g = h
       /\ \A v, w \in FieldValues :
             call.flat_dict = {<<T_FirstName, v>>, <<T_ProjectID, w>>}
                => returned = {<<G_DataOwner, {<<T_FirstName, v>>}>>,
                               <<G_InvestigationInfo, {<<T_ProjectID, w>>}>>}

\* a known field, a field that matches a pattern and an unknown field were grouped
C21_Witness ==
    /\ GroupingCall
    /\ DictKeys(call.flat_dict) = {T_FirstName, T_Collaborator1, T_UnknownField}
    /\ DictKeys(returned) = {G_DataOwner, G_DataCollaborator, G_Metadata}

-----------------------------------------------------------------------------
(* C22: a download from a target that exists succeeds and gives, in the      *)
(* order of the plates and of their wells, exactly one WellCondition for     *)
(* every Well that has an annotation in the conditions namespace: its plate  *)
(* is the name of the parent Plate, its well the letter of the zero-based    *)
(* row index (0 is A) followed by the column index plus one on two digits    *)
(* (row 1, column 5 is B06), its conditions the pairs of the annotation.  A  *)
(* Well with no such annotation gives no WellCondition and no error.         *)

DownloadCall == call.op = "download_metadata_from_omero"

TargetFound ==
    \E o \in call.conn.objects : o.type = call.target_type /\ o.id = call.target_id

TargetObject ==
    CHOOSE o \in call.conn.objects : o.type = call.target_type /\ o.id = call.target_id

\* the positions of the well's annotations that are in the conditions namespace
ConditionsAt(well) ==
    {i \in 1..Len(well.annotations) :
        well.annotations[i].ns = call.namespace \o <<"/">> \o SHEET_CONDITIONS}

IsAnnotatedWell(well) == ConditionsAt(well) # {}

\* the wells with conditions, each with its plate, in the order they are read
RECURSIVE AnnotatedWells(_)
AnnotatedWells(plates) ==
    IF plates = <<>> THEN <<>>
    ELSE [i \in 1..Len(SelectSeq(Head(plates).children, IsAnnotatedWell)) |->
             <<Head(plates), SelectSeq(Head(plates).children, IsAnnotatedWell)[i]>>]
         \o AnnotatedWells(Tail(plates))

TargetPlates ==
    IF call.target_type = S_Screen THEN TargetObject.children ELSE <<TargetObject>>

RowLetterAt ==
    <<"A", "B", "C", "D", "E", "F", "G", "H", "I", "J", "K", "L", "M", "N", "O", "P">>

\* the label the claim gives to a zero-based row and column
ClaimedLabel(row, column) ==
    <<RowLetterAt[row + 1], DigitChars[((column + 1) \div 10) + 1],
      DigitChars[((column + 1) % 10) + 1]>>

\* the pairs of the only conditions annotation of a well
OnlyAnnotationPairs(well) ==
    {well.annotations[i].value[j] :
        i \in ConditionsAt(well), j \in 1..Len(well.annotations[CHOOSE k \in ConditionsAt(well) : TRUE].value)}

-----------------------------------------------------------------------------
(* C23: the conversions have no effect on what they read.  A step of         *)
(* to_omero_dict leaves the Metadata it is called on as it was, field by     *)
(* field; a step of from_omero_dict leaves the dict it is given as it was,   *)
(* whether it returns or raises.                                             *)

-----------------------------------------------------------------------------
(* C24: the workbook that parse_excel_to_model opens is closed when the call *)
(* ends, whichever way it ends: with the Metadata, with the error of a       *)
(* missing required sheet, or with the error of a tier or conditions sheet.  *)

C24_WorkbookClosed ==
    (ParseCall /\ FileOpens) => xls = "closed"

-----------------------------------------------------------------------------
(* C25: from_omero_dict is all-or-nothing over 'AssayConditions'.  When one  *)
(* entry of the list has no 'Well' key (the well is then '') or has a well   *)
(* that cannot be brought to the form A01..P48, the call raises and gives no *)
(* Metadata, whatever the other entries are.                                 *)

FromDictCall == call.op = "from_omero_dict"

\* the well, stripped and upper-cased, is a letter A-P and a number 1..48
CanBeCanonical(w) ==
    /\ Len(Upper(Strip(w))) >= 2
    /\ Upper(Strip(w))[1] \in RowLetters
    /\ IntParses(Tail(Upper(Strip(w))))
    /\ IntValue(Tail(Upper(Strip(w)))) \in 1..48

IsBadEntry(condition_dict) ==
    \/ S_Well \notin DictKeys(condition_dict)
    \/ \E p \in condition_dict : p[1] = S_Well /\ ~CanBeCanonical(p[2])

\* the entries of 'AssayConditions' of the dict given to the call
GivenEntries ==
    IF HasKey(call.data, SHEET_CONDITIONS)
    THEN ItemValue(GetItem(call.data, SHEET_CONDITIONS))
    ELSE <<>>

HasBadEntry == \E i \in 1..Len(GivenEntries) : IsBadEntry(GivenEntries[i])

C25_AllOrNothing ==
    (FromDictCall /\ HasBadEntry) =>
       /\ pc = "failed"
       /\ metadata = NoObject
       /\ raised.type = "ValidationError"

\* a list with a valid entry followed by an entry that has no 'Well' was refused
C25_Witness ==
    /\ FromDictCall
    /\ pc = "failed"
    /\ Len(GivenEntries) = 2
    /\ ~IsBadEntry(GivenEntries[1])
    /\ S_Well \notin DictKeys(GivenEntries[2])

-----------------------------------------------------------------------------
(* C26: a Metadata that parse_excel_to_model returns has its three tiers,    *)
(* none of them null.  A tier sheet in which no row survives (every row is a *)
(* comment, has no group, is the 'Annotation_groups' row or has no key)      *)
(* gives a tier whose groups are empty, not a missing tier.                  *)

\* the workbook was parsed into a Metadata
ParseReturned == ParseCall /\ metadata # NoObject

NoRowSurvives(grid) == \A i \in 1..Len(grid) : IsSkippedTierRow(grid[i])

C26_TiersPresent ==
    ParseReturned =>
       /\ metadata.investigation_information # NoObject
       /\ metadata.study_information # NoObject
       /\ metadata.assay_information # NoObject
       /\ NoRowSurvives(InvestigationSheet) => metadata.investigation_information.groups = {}

\* a workbook whose InvestigationInformation sheet has two rows, none of which
\* survives, was parsed
C26_Witness ==
    /\ ParseReturned
    /\ Len(InvestigationSheet) = 2
    /\ NoRowSurvives(InvestigationSheet)
    /\ metadata.investigation_information = Tier({})
    /\ metadata.study_information.groups # {}

-----------------------------------------------------------------------------
(* C27: in a tier sheet the last row wins.  When several surviving rows of   *)
(* the sheet have the same group and key, the tier holds that key once under *)
(* that group, with the value of the last of these rows, null when that row  *)
(* has no value.  The other fields are not affected: a key that one          *)
(* surviving row below the first row of the sheet carries is held with the   *)
(* value of that row, and the tier holds no field that no row carries.       *)

\* the surviving rows of the sheet that carry the key under the group
Carriers(grid, group, key) ==
    {i \in 1..Len(grid) : ~IsSkippedTierRow(grid[i]) /\ grid[i][1] = group /\ grid[i][2] = key}

LastCarrier(grid, group, key) ==
    CHOOSE i \in Carriers(grid, group, key) : \A j \in Carriers(grid, group, key) : j <= i

\* the value a row gives to its key
RowValue(row) == IF row[3] = NaN THEN None ELSE row[3]

\* the items of the tier that have the key under the group
HeldItems(tier, group, key) ==
    {it \in GetOr(tier.groups, group, {}) : it[1] = key}

\* the sheet has a group and key that several surviving rows carry
HasRepeatedKey(grid) ==
    \E i \in 1..Len(grid) :
        ~IsSkippedTierRow(grid[i]) /\ Cardinality(Carriers(grid, grid[i][1], grid[i][2])) >= 2

C27_LastRowWins ==
    (ParseReturned /\ HasRepeatedKey(InvestigationSheet)) =>
       /\ \A i \in 1..Len(InvestigationSheet) :
             ~IsSkippedTierRow(InvestigationSheet[i]) =>
                /\ Cardinality(Carriers(InvestigationSheet, InvestigationSheet[i][1],
                                        InvestigationSheet[i][2])) >= 2
                   => HeldItems(metadata.investigation_information,
                                InvestigationSheet[i][1], InvestigationSheet[i][2])
                         = {<<InvestigationSheet[i][2],
                              RowValue(InvestigationSheet[
                                  LastCarrier(InvestigationSheet, InvestigationSheet[i][1],
                                              InvestigationSheet[i][2])])>>}
                /\ (i > 1 /\ Cardinality(Carriers(InvestigationSheet, InvestigationSheet[i][1],
                                                  InvestigationSheet[i][2])) = 1)
                   => HeldItems(metadata.investigation_information,
                                InvestigationSheet[i][1], InvestigationSheet[i][2])
                         = {<<InvestigationSheet[i][2], RowValue(InvestigationSheet[i])>>}
       /\ \A g \in metadata.investigation_information.groups :
             /\ \A h \in metadata.investigation_information.groups : h[1] = g[1] => h = g
             /\ \A it \in g[2] : Carriers(InvestigationSheet, g[1], it[1]) # {}

\* a sheet in which a key with a value is followed by the same key of the same
\* group with no value was parsed: the key is held with null
C27_Witness ==
    /\ ParseReturned
    /\ InvestigationSheet =
          <<<<T_Comment, T_Key, T_Value>>, <<T_Group, T_Key, T_Value>>, <<T_Group, T_Key, NaN>>>>
    /\ metadata.investigation_information.groups = {<<T_Group, {<<T_Key, None>>}>>}

====
